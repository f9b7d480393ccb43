---------------------------- MODULE MessagingSync ----------------------------
(***************************************************************************)
(* A conversation whose history has been loaded is complete: the proof of  *)
(* SyncedThreadsAreComplete, for any users, servers and scenarios.         *)
(*                                                                         *)
(* IInv says what fits on a wire and on a screen, not what has to be there *)
(* for nothing to fall between history and push.  For that four more       *)
(* things are invariant: where a login stands (LoginInv), that a session   *)
(* which has been answered, or is about to be, is where UserMgr says, and  *)
(* where Redis says unless something has failed (LocationInv), what a      *)
(* handler has saved while it still tries (SavedInv), and that a message   *)
(* to a user whom Redis leads to is in his cache or on its way there,      *)
(* behind every page that lacks it (SyncInv).                              *)
(***************************************************************************)
EXTENDS MessagingProofs

-----------------------------------------------------------------------------
(* Where a login stands.                                                   *)

\* The job is on the user's connection.
Mine(s, u) == job[s] # Idle /\ job[s].by = u /\ job[s].n = link[u].n

\* The answer to his login is on its way to him.
Answering(u) == \E i \in DOMAIN down[u] : down[u][i].op = "login"

\* What a server sends without being asked.
PushOps == {"notifyApply", "notifyAuth", "notifyText"}

\* Until the answer there is one login on the way, as a frame, at a server or
\* as an answer, and nothing else but pushes; after it there is none.
LoginOf(u) ==
    /\ phase[u] = "connecting" =>
         /\ synced[u] = {} /\ up[u] \in {<<>>, <<[op |-> "login"]>>}
         /\ \A i \in DOMAIN down[u] : down[u][i].op \in {"login"} \cup PushOps
         /\ \A i, k \in DOMAIN down[u] : down[u][i].op = "login" /\ down[u][k].op = "login" => i = k
         /\ \A s \in Servers : Mine(s, u) => job[s].op = "login" /\ up[u] = <<>>
         /\ Answering(u) => up[u] = <<>> /\ \A s \in Servers : ~Mine(s, u)
    /\ phase[u] = "ready" =>
         /\ \A i \in DOMAIN up[u] : up[u][i].op # "login"
         /\ ~Answering(u)
         /\ \A s \in Servers : Mine(s, u) => job[s].op # "login"
LoginInv == synced = [u \in Users |-> synced[u]] /\ \A u \in Users : LoginOf(u)

-----------------------------------------------------------------------------
(* Where a user is.                                                        *)

Binding(s, u) == job[s].by = u /\ At(s, "bind")

\* The answer to the login has been given, or nothing but that is left to do.
Settled(u) ==
    \/ phase[u] = "ready"
    \/ /\ phase[u] = "connecting"
       /\ \/ \E s \in Servers : Mine(s, u) /\ At(s, "greet")
          \/ \E i \in DOMAIN down[u] : down[u][i].op = "login" /\ down[u][i].ok

\* Then UserMgr has the session, so has Redis unless something has failed, and
\* no older login holds the lock.
LocationOf(u) ==
    /\ phase[u] # "off" =>
         link[u].n # 0 /\ \A s \in Servers : mgr[s][u] = link[u].n => s = link[u].srv
    /\ \A s, t \in Servers : Binding(s, u) /\ Binding(t, u) => s = t
    /\ \A s \in Servers :
         Binding(s, u) /\ Mine(s, u) /\ phase[u] # "off" /\ faults = 0 => uip[u].srv = link[u].srv
    /\ Settled(u) => /\ ~Locked(u) /\ mgr[link[u].srv][u] = link[u].n
                     /\ faults = 0 => uip[u] = link[u]
LocationInv == \A u \in Users : LocationOf(u)

-----------------------------------------------------------------------------
(* What a handler has saved.                                               *)

\* Nothing before the first save; a text is one message, of who sends it.
SavedOk(j) ==
    /\ j.pc \in {"confirm", "find", "insert", "refuse"} => j.saved = <<>>
    /\ j.op = "text" =>
         /\ Len(j.todo) <= 1 /\ (j.todo # <<>> => j.saved = <<>>)
         /\ \A i \in DOMAIN j.todo : j.todo[i].from = j.by
         /\ \A i \in DOMAIN j.saved : j.saved[i].from = j.by
SavedInv == \A s \in Servers : job[s] # Idle => SavedOk(job[s])

-----------------------------------------------------------------------------
(* What a user must have, and how it comes to him.                         *)

Owed(u) == {r \in chat : r.live /\ r.to = u /\ r.id \notin unpushed}
Known(u, v) == Entry(cache[u], v) # 0
HasIt(u, r) == ShownWith(cache[u], r.from, r.cid, r.id)

\* The frame shows it; a handler that has saved it will push it to u, or
\* answer u with it.
Carries(f, r) ==
    /\ f.op \in {"notifyText", "notifyAuth"} \/ (f.op = "auth" /\ f.ok)
    /\ f.peer = r.from /\ Shows(f.msgs, r.cid, r.id)
HasSaved(j, r) == \E i \in DOMAIN j.saved : j.saved[i] = [from |-> r.from, cid |-> r.cid, id |-> r.id]
WillPush(j, u, r) ==
    /\ j.by = r.from /\ j.req.to = u
    /\ j.pc \in {"save", "commit", "route"} \/ (j.pc = "push" /\ j.dst = link[u].srv)
WillAnswer(j, u, r) ==
    /\ j.op = "auth" /\ j.by = u /\ j.req.to = r.from
    /\ j.pc \in {"save", "commit", "route", "push", "answer"}
Coming(s, u, r) ==
    /\ job[s] # Idle /\ job[s].op \in {"text", "auth"} /\ HasSaved(job[s], r)
    /\ WillPush(job[s], u, r) \/ WillAnswer(job[s], u, r)

\* It is on its way, behind the first i frames; so it will be shown, if the
\* client knows the sender.
Told(u, r, i) ==
    \/ \E s \in Servers : Coming(s, u, r)
    \/ \E k \in DOMAIN down[u] : k > i /\ Carries(down[u][k], r)
Covered(u, r) == Known(u, r.from) /\ (HasIt(u, r) \/ Told(u, r, 0))

\* The sender of a conversation is known; all up to an id is covered.
KnownIn(u, t) == t # 0 /\ \E v \in Users : threadOf[<<u, v>>] = t /\ Known(u, v)
UpTo(u, t, after) ==
    after > 0 => /\ KnownIn(u, t)
                 /\ \A r \in Owed(u) : r.thread = t /\ r.id <= after => Covered(u, r)

\* A page of history has what it should have, but for what is told behind it
\* or has been told.
PageOf(f, r) == r.thread = f.thread /\ (f.more => r.id <= Last(f.msgs).id)
PageOk(u, f, i) ==
    f.op = "load" /\ f.ok =>
        \A r \in Owed(u) : PageOf(f, r) => Shows(f.msgs, r.cid, r.id) \/ Told(u, r, i) \/ Covered(u, r)

\* The user is logged in, and Redis leads to him.
Here(u) == phase[u] = "ready" /\ Located(u)

SyncOf(u) == Here(u) =>
    /\ \A t \in synced[u] : KnownIn(u, t) /\ \A r \in Owed(u) : r.thread = t => Covered(u, r)
    /\ \A i \in DOMAIN up[u] : up[u][i].op = "load" => UpTo(u, up[u][i].thread, up[u][i].after)
    /\ \A s \in Servers : Mine(s, u) /\ job[s].op = "load" =>
         UpTo(u, job[s].req.thread, job[s].req.after)
    /\ \A i \in DOMAIN down[u] : PageOk(u, down[u][i], i)
SyncInv == \A u \in Users : SyncOf(u)

\* What has failed is not forgotten.
Counted == faults' = 0 => faults = 0

\* Together they are inductive.
SInv == IInv /\ LoginInv /\ LocationInv /\ SavedInv /\ SyncInv

-----------------------------------------------------------------------------
(* The steps of the servers, in general.                                   *)

\* The job of s becomes k; the only frames are pushes and, from the user's own
\* connection, the answer that ends the job.
ServerMoves(s, k) ==
    /\ job[s] # Idle /\ job' = [job EXCEPT ![s] = k]
    /\ k = Idle \/ (/\ k # Idle /\ k.op = job[s].op /\ k.by = job[s].by /\ k.n = job[s].n
                    /\ k.req = job[s].req)
    /\ UNCHANGED <<link, up, phase, cache, synced>>
    /\ down' = down \/ \E v \in Users : \E f :
          /\ Sends(v, f)
          /\ f.op \in PushOps \/ (k = Idle /\ Mine(s, v) /\ f.op = job[s].op)

\* A user's connection is with one server.
LEMMA MineIsOne ==
  ASSUME IInv, NEW u \in Users, phase[u] # "off", NEW s \in Servers, Mine(s, u)
  PROVE  s = link[u].srv
<1>1. JobInv /\ SessionInv
  BY DEF IInv
<1>2. Current(s, job[s]) /\ job[s].by = u /\ job[s].n = link[u].n
  BY <1>1, JobFits DEF Mine
<1>3. link[u].srv # NoServer
  BY <1>1 DEF SessionInv
<1> QED
  BY <1>2, <1>3 DEF Current

\* What a frame appended does to the frames.
LEMMA SentAt ==
  ASSUME IInv, NEW v \in Users, NEW f, Sends(v, f), NEW u \in Users
  PROVE  \/ down'[u] = down[u] /\ u # v
         \/ /\ u = v /\ down'[u] = Append(down[u], f)
            /\ DOMAIN down'[u] = DOMAIN down[u] \cup {Len(down[u]) + 1}
            /\ down'[u][Len(down[u]) + 1] = f
            /\ \A i \in DOMAIN down[u] : down'[u][i] = down[u][i]
            /\ DOMAIN down[u] = 1..Len(down[u]) /\ Len(down[u]) \in Nat
<1>1. down = [w \in Users |-> down[w]] /\ down[u] \in Seq(AnswersOf(u))
  BY DEF IInv, WireInv
<1>2. down'[u] = IF u = v THEN Append(down[u], f) ELSE down[u]
  BY <1>1 DEF Sends
<1>3. PICK d, S : d = down[u] /\ d \in Seq(S)
  BY <1>1
<1>4. /\ DOMAIN d = 1..Len(d) /\ Len(d) \in Nat
      /\ DOMAIN Append(d, f) = 1..(Len(d) + 1) /\ Append(d, f)[Len(d) + 1] = f
      /\ \A i \in 1..Len(d) : Append(d, f)[i] = d[i]
  BY <1>3
<1>5. 1..(Len(d) + 1) = 1..Len(d) \cup {Len(d) + 1}
  BY <1>4
<1> QED
  BY <1>2, <1>3, <1>4, <1>5

\* What the jobs are after it.
LEMMA MovedAt ==
  ASSUME IInv, NEW s \in Servers, NEW k, ServerMoves(s, k)
  PROVE  /\ job'[s] = k /\ \A t \in Servers : t # s => job'[t] = job[t]
         /\ \A t \in Servers, u \in Users :
               Mine(t, u)' => /\ Mine(t, u) /\ (t = s => k # Idle)
                              /\ job'[t].op = job[t].op /\ job'[t].req = job[t].req
<1>1. job = [t \in Servers |-> job[t]]
  BY DEF IInv, JobInv
<1>2. job'[s] = k /\ \A t \in Servers : t # s => job'[t] = job[t]
  BY <1>1 DEF ServerMoves
<1>3. ASSUME NEW t \in Servers, NEW u \in Users, Mine(t, u)'
      PROVE  /\ Mine(t, u) /\ job'[t].op = job[t].op /\ job'[t].req = job[t].req /\ (t = s => k # Idle)
  BY <1>2, <1>3 DEF Mine, ServerMoves
<1> QED
  BY <1>2, <1>3

\* No such step disturbs where a login stands: an answer to one is given by
\* the one job there is.
LEMMA ServerLogin ==
  ASSUME SInv, NEW s \in Servers, NEW k, ServerMoves(s, k)
  PROVE  LoginInv'
<1> SUFFICES ASSUME NEW u \in Users PROVE LoginOf(u)'
  BY DEF SInv, LoginInv, ServerMoves
<1>1. IInv /\ LoginOf(u) /\ UNCHANGED <<link, up, phase, cache, synced>>
  BY DEF SInv, LoginInv, ServerMoves
<1>2. \A t \in Servers : Mine(t, u)' => Mine(t, u) /\ job'[t].op = job[t].op /\ (t = s => k # Idle)
  BY <1>1, MovedAt
<1>3. CASE down'[u] = down[u]
  BY <1>1, <1>2, <1>3 DEF LoginOf, Answering
<1>4. CASE down'[u] # down[u]
  <2>1. PICK v \in Users : \E f : /\ Sends(v, f)
                                  /\ f.op \in PushOps \/ (k = Idle /\ Mine(s, v) /\ f.op = job[s].op)
    BY <1>4 DEF ServerMoves
  <2>2. PICK f : /\ Sends(v, f)
                 /\ f.op \in PushOps \/ (k = Idle /\ Mine(s, v) /\ f.op = job[s].op)
    BY <2>1
  <2>3. /\ v = u /\ DOMAIN down'[u] = DOMAIN down[u] \cup {Len(down[u]) + 1}
        /\ down'[u][Len(down[u]) + 1] = f /\ Len(down[u]) + 1 \notin DOMAIN down[u]
        /\ \A i \in DOMAIN down[u] : down'[u][i] = down[u][i]
    <3>1. PICK n : n = Len(down[u])
      OBVIOUS
    <3>2. n \in Nat => n + 1 \notin 1..n
      OBVIOUS
    <3> QED
      BY <1>1, <1>4, <2>2, <3>1, <3>2, SentAt
  <2>4. PICK z : z = Len(down[u]) + 1
    OBVIOUS
  <2>5. Answering(u)' <=> Answering(u) \/ f.op = "login"
    BY <2>3, <2>4 DEF Answering
  <2>6. CASE f.op \in PushOps
    BY <1>1, <1>2, <2>3, <2>4, <2>5, <2>6 DEF LoginOf, Answering, PushOps
  <2>7. CASE k = Idle /\ Mine(s, u) /\ f.op = job[s].op
    <3>1. ASSUME phase[u] # "off" PROVE \A t \in Servers : ~Mine(t, u)'
      BY <1>1, <1>2, <2>7, <3>1, MineIsOne
    <3>2. ASSUME phase[u] = "connecting" PROVE f.op = "login" /\ ~Answering(u) /\ up[u] = <<>>
      BY <1>1, <2>7, <3>2 DEF LoginOf
    <3>3. ASSUME phase[u] = "ready" PROVE f.op # "login"
      BY <1>1, <2>7, <3>3 DEF LoginOf
    <3> QED
      BY <1>1, <2>3, <2>4, <2>5, <3>1, <3>2, <3>3 DEF LoginOf, Answering
  <2> QED
    BY <2>2, <2>3, <2>6, <2>7
<1> QED
  BY <1>3, <1>4

-----------------------------------------------------------------------------
(* Where the users are, after a step of a server.                          *)

\* The handlers other than the login, and a login that is read or refused,
\* leave the users where they are.
Stationary(s, k) ==
    /\ UNCHANGED <<uip, mgr>>
    /\ job[s].op = "login" => /\ k.pc \notin {"bind", "greet"}
                              /\ \A v \in Users : \A f : Sends(v, f) => ~f.ok
\* Their steps leave everyone where he is.
LEMMA ServerLocation ==
  ASSUME SInv, IInv', Counted, NEW s \in Servers, NEW k, ServerMoves(s, k), Stationary(s, k)
  PROVE  LocationInv'
<1> SUFFICES ASSUME NEW u \in Users PROVE LocationOf(u)'
  BY DEF LocationInv
<1>1. IInv /\ LocationOf(u) /\ UNCHANGED <<link, phase, uip, mgr>>
  BY DEF SInv, LocationInv, ServerMoves, Stationary
<1>2. /\ \A t \in Servers : Mine(t, u)' => Mine(t, u)
      /\ job'[s] = k /\ \A t \in Servers : t # s => job'[t] = job[t]
  BY <1>1, MovedAt
<1>3. k.pc \notin {"bind", "greet"}
  <2>1. CASE k = Idle
    BY <2>1 DEF Idle
  <2>2. CASE k # Idle /\ job[s].op # "login"
    <3>1. JobInv' /\ job'[s] = k /\ k.op # "login"
      BY <1>2, <2>2 DEF IInv, ServerMoves
    <3>2. PICK w \in Users : k \in WorkOf(w)'
      BY <2>2, <3>1 DEF JobInv, Fits
    <3>3. k.op \in Ops /\ k.pc \in Stages(k.op)
      BY <3>2 DEF WorkOf, Work
    <3> QED
      BY <3>1, <3>3, LoginPlaces
  <2> QED
    BY <2>1, <2>2 DEF Stationary
<1>4. \A t \in Servers : \A pc \in {"bind", "greet"} : At(t, pc)' => At(t, pc) /\ job'[t] = job[t]
  BY <1>2, <1>3 DEF At
<1>5. \A t \in Servers : Binding(t, u)' => Binding(t, u)
  BY <1>4 DEF Binding
<1>6. Locked(u)' => Locked(u)
  BY <1>5 DEF Locked, Binding
<1>7. Settled(u)' => Settled(u)
  <2>1. ASSUME \E i \in DOMAIN down'[u] : down'[u][i].op = "login" /\ down'[u][i].ok
        PROVE  \E i \in DOMAIN down[u] : down[u][i].op = "login" /\ down[u][i].ok
    <3>1. PICK i \in DOMAIN down'[u] : down'[u][i].op = "login" /\ down'[u][i].ok
      BY <2>1
    <3>2. CASE down' = down
      BY <3>1, <3>2
    <3>3. ASSUME NEW v \in Users, NEW f, Sends(v, f), f.op \in PushOps \/ f.op = job[s].op
          PROVE  i \in DOMAIN down[u] /\ down'[u][i] = down[u][i]
      <4>1. ~(f.op = "login" /\ f.ok)
        BY <3>3 DEF Stationary, PushOps
      <4> QED
        BY <1>1, <3>1, <3>3, <4>1, SentAt
    <3> QED
      BY <3>1, <3>2, <3>3 DEF ServerMoves
  <2> QED
    BY <1>1, <1>2, <1>4, <2>1 DEF Settled
<1> QED
  BY <1>1, <1>2, <1>5, <1>6, <1>7 DEF LocationOf, Counted

-----------------------------------------------------------------------------
(* What is owed, after a step of a server.                                 *)

\* A message that becomes visible is in a handler's hands; what a handler has
\* is kept, sent, or given up; a page shows what is not covered otherwise.
Serves(s, k) ==
    /\ ServerMoves(s, k) /\ (k # Idle => SavedOk(k))
    /\ \A p \in Pairs : threadOf[p] # 0 => threadOf'[p] = threadOf[p]
    /\ \A u \in Users : Here(u)' => Here(u)
    /\ \A u \in Users : Here(u) =>
         /\ \A r \in Owed(u)' : r \in Owed(u) \/ Coming(s, u, r)'
         /\ \A r \in Owed(u)' : Coming(s, u, r) =>
              Coming(s, u, r)' \/ \E f : Sends(u, f) /\ Carries(f, r)
         /\ \A f : Sends(u, f) /\ f.op = "load" /\ f.ok =>
              \A r \in Owed(u)' : PageOf(f, r) => Shows(f.msgs, r.cid, r.id) \/ Covered(u, r)

\* What has been saved so far.
LEMMA ServerSaved ==
  ASSUME SInv, NEW s \in Servers, NEW k, Serves(s, k)
  PROVE  SavedInv'
<1>1. IInv /\ SavedInv /\ ServerMoves(s, k) /\ (k # Idle => SavedOk(k))
  BY DEF SInv, Serves
<1>2. job'[s] = k /\ \A t \in Servers : t # s => job'[t] = job[t]
  BY <1>1, MovedAt
<1> QED
  BY <1>1, <1>2 DEF SavedInv

\* What is told stays so, ...
LEMMA ToldStays ==
  ASSUME SInv, NEW s \in Servers, NEW k, Serves(s, k), NEW u \in Users, Here(u),
         NEW r \in Owed(u)', NEW i, i = 0 \/ i \in DOMAIN down[u], Told(u, r, i)
  PROVE  Told(u, r, i)'
<1>1. IInv /\ ServerMoves(s, k)
  BY DEF SInv, Serves
<1>2. job'[s] = k /\ \A t \in Servers : t # s => job'[t] = job[t]
  BY <1>1, MovedAt
<1>3. down'[u] = down[u] \/ \E f : Sends(u, f)
  <2>1. CASE down' = down
    BY <2>1
  <2>2. ASSUME NEW v \in Users, NEW f, Sends(v, f)
        PROVE  down'[u] = down[u] \/ Sends(u, f)
    BY <1>1, <2>2, SentAt
  <2> QED
    BY <1>1, <2>1, <2>2 DEF ServerMoves
<1>4. ASSUME NEW n \in DOMAIN down[u]
      PROVE  n \in DOMAIN down'[u] /\ down'[u][n] = down[u][n]
  <2>1. ASSUME NEW f, Sends(u, f) PROVE n \in DOMAIN down'[u] /\ down'[u][n] = down[u][n]
    BY <1>1, <1>4, <2>1, SentAt
  <2> QED
    BY <1>3, <1>4, <2>1
<1>5. CASE \E n \in DOMAIN down[u] : n > i /\ Carries(down[u][n], r)
  <2>1. PICK n \in DOMAIN down[u] : n > i /\ Carries(down[u][n], r)
    BY <1>5
  <2>2. n \in DOMAIN down'[u] /\ Carries(down[u][n], r)' /\ down'[u][n] = down[u][n]
    BY <1>4, <2>1 DEF Carries
  <2> QED
    BY <2>1, <2>2 DEF Told, Carries
<1>6. ASSUME NEW t \in Servers, t # s, Coming(t, u, r)
      PROVE  Coming(t, u, r)'
  BY <1>1, <1>2, <1>6 DEF Coming, HasSaved, WillPush, WillAnswer, ServerMoves
<1>7. ASSUME NEW f, Sends(u, f), Carries(f, r)
      PROVE  Told(u, r, i)'
  <2>1. PICK n : n = Len(down[u]) + 1
    OBVIOUS
  <2>2. n \in DOMAIN down'[u] /\ down'[u][n] = f /\ n > i
    <3>1. PICK l : l = Len(down[u])
      OBVIOUS
    <3>2. l \in Nat /\ (i = 0 \/ i \in 1..l)
      BY <1>1, <1>7, <3>1, SentAt
    <3>3. l + 1 > i
      BY <3>2
    <3> QED
      BY <1>1, <1>7, <2>1, <3>1, <3>3, SentAt
  <2> QED
    BY <1>7, <2>2 DEF Told, Carries
<1>8. Coming(s, u, r) => Coming(s, u, r)' \/ \E f : Sends(u, f) /\ Carries(f, r)
  BY DEF Serves
<1>9. (\E t \in Servers : Coming(t, u, r)') => Told(u, r, i)'
  BY DEF Told
<1> QED
  BY <1>5, <1>6, <1>7, <1>8, <1>9 DEF Told
\* ... and so is what is covered, with what has become visible just now.
LEMMA CoveredStays ==
  ASSUME SInv, NEW s \in Servers, NEW k, Serves(s, k), NEW u \in Users, Here(u),
         NEW r \in Owed(u)', Covered(u, r)
  PROVE  Covered(u, r)'
<1>1. cache' = cache
  BY DEF Serves, ServerMoves
<1>2. Told(u, r, 0) => Told(u, r, 0)'
  BY ToldStays
<1> QED
  BY <1>1, <1>2 DEF Covered, Known, HasIt, ShownWith

\* Whom a conversation is with does not change.
LEMMA KnownStays ==
  ASSUME NEW u \in Users, cache' = cache, NEW t, KnownIn(u, t),
         \A p \in Pairs : threadOf[p] # 0 => threadOf'[p] = threadOf[p]
  PROVE  KnownIn(u, t)'
<1>1. PICK v \in Users : threadOf[<<u, v>>] = t /\ Known(u, v) /\ t # 0
  BY DEF KnownIn
<1>2. <<u, v>> \in Pairs
  BY DEF Pairs
<1>3. threadOf'[<<u, v>>] = t
  BY <1>1, <1>2
<1> QED
  BY <1>1, <1>3 DEF KnownIn, Known

\* A row of it is from the other one.
LEMMA SenderIs ==
  ASSUME StoreInv', NEW u \in Users, NEW v \in Users, NEW r \in Owed(u)', r.thread # 0,
         r.thread = threadOf'[<<u, v>>]
  PROVE  r.from = v
<1>1. ThreadsInv' /\ r.to = u /\ Row(r)'
  BY DEF StoreInv, ChatInv, Owed
<1>2. PICK w \in Users : w = r.from /\ threadOf'[<<w, u>>] = r.thread /\ w # u
  BY <1>1 DEF Row
<1>3. (w = u /\ u = v) \/ (w = v /\ u = u)
  BY <1>1, <1>2 DEF ThreadsInv
<1> QED
  BY <1>2, <1>3

\* ... before the step too.
LEMMA SenderWas ==
  ASSUME StoreInv, NEW u \in Users, NEW v \in Users, NEW r \in Owed(u), r.thread # 0,
         r.thread = threadOf[<<u, v>>]
  PROVE  r.from = v
<1>1. ThreadsInv /\ r.to = u /\ Row(r)
  BY DEF StoreInv, ChatInv, Owed
<1>2. PICK w \in Users : w = r.from /\ threadOf[<<w, u>>] = r.thread /\ w # u
  BY <1>1 DEF Row
<1>3. (w = u /\ u = v) \/ (w = v /\ u = u)
  BY <1>1, <1>2 DEF ThreadsInv
<1> QED
  BY <1>2, <1>3

\* A row of a conversation whose sender is known stays covered; a new one is
\* told.
LEMMA RowStays ==
  ASSUME SInv, IInv', Counted, NEW s \in Servers, NEW k, Serves(s, k), NEW u \in Users, Here(u),
         NEW t, KnownIn(u, t), NEW r \in Owed(u)', r.thread = t, r \in Owed(u) => Covered(u, r)
  PROVE  Covered(u, r)'
<1>1. CASE r \in Owed(u)
  BY <1>1, CoveredStays
<1>2. CASE r \notin Owed(u)
  <2>1. Told(u, r, 0)'
    BY <1>2 DEF Serves, Told
  <2>2. /\ StoreInv' /\ cache' = cache
        /\ \A p \in Pairs : threadOf[p] # 0 => threadOf'[p] = threadOf[p]
    BY DEF IInv, Serves, ServerMoves
  <2>3. KnownIn(u, t)'
    BY <2>2, KnownStays
  <2>4. PICK v \in Users : threadOf'[<<u, v>>] = t /\ Known(u, v)' /\ t # 0
    BY <2>3 DEF KnownIn
  <2>5. r.from = v
    BY <2>2, <2>4, SenderIs
  <2> QED
    BY <2>1, <2>4, <2>5 DEF Covered
<1> QED
  BY <1>1, <1>2

\* What a history has been asked from.
LEMMA UpToStays ==
  ASSUME SInv, IInv', Counted, NEW s \in Servers, NEW k, Serves(s, k), NEW u \in Users, Here(u),
         NEW t, NEW after, UpTo(u, t, after)
  PROVE  UpTo(u, t, after)'
<1> SUFFICES ASSUME after > 0
             PROVE  KnownIn(u, t)' /\ \A r \in Owed(u)' : r.thread = t /\ r.id <= after => Covered(u, r)'
  BY DEF UpTo
<1>1. KnownIn(u, t) /\ \A r \in Owed(u) : r.thread = t /\ r.id <= after => Covered(u, r)
  BY DEF UpTo
<1>2. KnownIn(u, t)'
  BY <1>1, KnownStays DEF Serves, ServerMoves
<1>3. ASSUME NEW r \in Owed(u)', r.thread = t, r.id <= after
      PROVE  Covered(u, r)'
  BY <1>1, <1>3, RowStays
<1> QED
  BY <1>2, <1>3

\* A page on the wire lacks nothing that is not told behind it.
LEMMA PageStays ==
  ASSUME SInv, NEW s \in Servers, NEW k, Serves(s, k), NEW u \in Users, Here(u),
         NEW i \in DOMAIN down[u], PageOk(u, down[u][i], i)
  PROVE  PageOk(u, down[u][i], i)'
<1> DEFINE f == down[u][i]
<1>1. f' = f
  <2>1. IInv
    BY DEF SInv
  <2>2. CASE down' = down
    BY <2>2
  <2>3. ASSUME NEW v \in Users, NEW g, Sends(v, g) PROVE f' = f
    BY <2>1, <2>3, SentAt
  <2> QED
    BY <2>2, <2>3 DEF Serves, ServerMoves
<1> HIDE DEF f
<1>2. ASSUME f.op = "load", f.ok, NEW r \in Owed(u)', PageOf(f, r)
      PROVE  Shows(f.msgs, r.cid, r.id) \/ Told(u, r, i)' \/ Covered(u, r)'
  <2>1. CASE r \in Owed(u)
    <3>1. Shows(f.msgs, r.cid, r.id) \/ Told(u, r, i) \/ Covered(u, r)
      BY <1>2, <2>1 DEF PageOk, f
    <3> QED
      BY <3>1, CoveredStays, ToldStays
  <2>2. CASE r \notin Owed(u)
    BY <2>2 DEF Serves, Told
  <2> QED
    BY <2>1, <2>2
<1>3. PageOk(u, f, i)'
  BY <1>1, <1>2 DEF PageOk, PageOf
<1> QED
  BY <1>3 DEF f

\* So a step of a server keeps what is owed in sight.
LEMMA ServerSync ==
  ASSUME SInv, IInv', Counted, NEW s \in Servers, NEW k, Serves(s, k)
  PROVE  SyncInv'
<1> SUFFICES ASSUME NEW u \in Users, Here(u)' PROVE SyncOf(u)'
  BY DEF SyncInv, SyncOf
<1>1. IInv /\ SyncOf(u) /\ ServerMoves(s, k) /\ Here(u)
  BY DEF SInv, SyncInv, Serves, ServerMoves
<1>2. UNCHANGED <<link, up, phase, cache, synced>>
  BY <1>1 DEF ServerMoves
<1>3. ASSUME NEW t \in synced'[u]
      PROVE  KnownIn(u, t)' /\ \A r \in Owed(u)' : r.thread = t => Covered(u, r)'
  <2>1. KnownIn(u, t) /\ \A r \in Owed(u) : r.thread = t => Covered(u, r)
    BY <1>1, <1>2, <1>3 DEF SyncOf
  <2>2. KnownIn(u, t)'
    BY <2>1, KnownStays DEF Serves, ServerMoves
  <2>3. ASSUME NEW r \in Owed(u)', r.thread = t PROVE Covered(u, r)'
    BY <1>1, <2>1, <2>3, RowStays
  <2> QED
    BY <2>2, <2>3
<1>4. ASSUME NEW i \in DOMAIN up'[u], up'[u][i].op = "load"
      PROVE  UpTo(u, up[u][i].thread, up[u][i].after)'
  <2>1. PICK t, after : t = up[u][i].thread /\ after = up[u][i].after
    OBVIOUS
  <2>2. UpTo(u, t, after)
    BY <1>1, <1>2, <1>4, <2>1 DEF SyncOf
  <2>3. UpTo(u, t, after)'
    BY <1>1, <2>2, UpToStays
  <2> QED
    BY <1>2, <2>1, <2>3 DEF UpTo
<1>5. ASSUME NEW t \in Servers, Mine(t, u)', job'[t].op = "load"
      PROVE  UpTo(u, job[t].req.thread, job[t].req.after)'
  <2>1. Mine(t, u) /\ job[t].op = "load" /\ job'[t].req = job[t].req
    BY <1>1, <1>5, MovedAt
  <2>2. PICK n, after : n = job[t].req.thread /\ after = job[t].req.after
    OBVIOUS
  <2>3. UpTo(u, n, after)
    BY <1>1, <2>1, <2>2 DEF SyncOf
  <2>4. UpTo(u, n, after)'
    BY <1>1, <2>3, UpToStays
  <2> QED
    BY <2>1, <2>2, <2>4 DEF UpTo
<1>6. ASSUME NEW i \in DOMAIN down'[u]
      PROVE  PageOk(u, down[u][i], i)'
  <2>1. CASE i \in DOMAIN down[u]
    BY <1>1, <2>1, PageStays DEF SyncOf
  <2>2. CASE i \notin DOMAIN down[u]
    <3>1. PICK v \in Users : \E f : Sends(v, f)
      BY <1>1, <1>6, <2>2 DEF ServerMoves
    <3>2. PICK f : Sends(v, f)
      BY <3>1
    <3>3. Sends(u, f) /\ down'[u][i] = f
      BY <1>1, <1>6, <2>2, <3>2, SentAt
    <3>4. \A r \in Owed(u)' : f.op = "load" /\ f.ok /\ PageOf(f, r) =>
            Shows(f.msgs, r.cid, r.id) \/ Covered(u, r)
      BY <1>1, <3>3 DEF Serves
    <3>5. \A r \in Owed(u)' : f.op = "load" /\ f.ok /\ PageOf(f, r) =>
            Shows(f.msgs, r.cid, r.id) \/ Covered(u, r)'
      BY <1>1, <3>4, CoveredStays
    <3> QED
      BY <3>3, <3>5 DEF PageOk, PageOf
  <2> QED
    BY <2>1, <2>2
<1> QED
  BY <1>3, <1>4, <1>5, <1>6 DEF SyncOf

\* A step of a server, all together.
LEMMA ServerKeeps ==
  ASSUME SInv, IInv', Counted, NEW s \in Servers, NEW k, Serves(s, k), LocationInv'
  PROVE  SInv'
BY ServerLogin, ServerSaved, ServerSync DEF SInv, Serves

-----------------------------------------------------------------------------
(* The steps that save and push nothing.                                   *)

\* Redis leads to nobody who was elsewhere before.
LEMMA StaysHere ==
  ASSUME NEW s \in Servers, NEW k, ServerMoves(s, k), uip' = uip
  PROVE  \A u \in Users : Here(u)' => Here(u)
BY DEF ServerMoves, Here, Located

\* At most one frame is sent.
LEMMA OneSent ==
  ASSUME IInv, NEW u \in Users, NEW f, Sends(u, f)
  PROVE  down' # down /\ \A v \in Users : \A g : Sends(v, g) => v = u /\ g = f
<1>1. PICK n : n = Len(down[u])
  OBVIOUS
<1>2. n \in Nat => n + 1 \notin 1..n
  OBVIOUS
<1>3. /\ DOMAIN down[u] = 1..n /\ n \in Nat /\ DOMAIN down'[u] = DOMAIN down[u] \cup {n + 1}
      /\ down'[u][n + 1] = f
  BY <1>1, SentAt
<1>4. down'[u] # down[u]
  BY <1>2, <1>3
<1>5. ASSUME NEW v \in Users, NEW g, Sends(v, g)
      PROVE  v = u /\ g = f
  BY <1>1, <1>3, <1>4, <1>5, SentAt
<1> QED
  BY <1>4, <1>5

\* A job with some of its variables changed.
LEMMA JobGoes ==
  ASSUME IInv, NEW s \in Servers, job[s] # Idle, NEW pc, NEW thread, NEW retry, NEW todo, NEW saved,
         NEW dst, NEW out, NEW k, k = Moved(job[s], pc, thread, retry, todo, saved, dst, out)
  PROVE  /\ k # Idle /\ k.op = job[s].op /\ k.by = job[s].by /\ k.n = job[s].n /\ k.req = job[s].req
         /\ k.pc = pc /\ k.thread = thread /\ k.todo = todo /\ k.saved = saved /\ k.dst = dst
<1>1. /\ k.op = job[s].op /\ k.by = job[s].by /\ k.n = job[s].n /\ k.req = job[s].req
      /\ k.pc = pc /\ k.thread = thread /\ k.todo = todo /\ k.saved = saved /\ k.dst = dst
  BY DEF Moved
<1>2. job[s].op # "idle"
  <2>1. job[s].op \in Ops
    BY Working
  <2> QED
    BY <2>1 DEF Ops
<1> QED
  BY <1>1, <1>2 DEF Idle

\* The frame that ends a job.
LEMMA FinishMoves ==
  ASSUME IInv, NEW s \in Servers, job[s] # Idle, NEW f, Finish(s, f), f.op = job[s].op
  PROVE  /\ ServerMoves(s, Idle) /\ UNCHANGED <<uip, mgr>>
         /\ \A v \in Users : \A g : Sends(v, g) => g = f /\ v = job[s].by /\ Mine(s, v)
         /\ Open(job[s].by, s, job[s].n) /\ job[s].op # "apply" => Sends(job[s].by, f)
<1>1. PICK u, j : u = job[s].by /\ j = job[s]
  OBVIOUS
<1>2. u \in Users
  BY <1>1, Working
<1>3. /\ down' = IF j.op = "apply" THEN down ELSE Sent(u, s, j.n, f)
      /\ job' = [job EXCEPT ![s] = Idle]
      /\ UNCHANGED <<uip, mgr, link, up, phase, cache, synced>>
  BY <1>1 DEF Finish
<1>4. Open(u, s, j.n) /\ j.op # "apply" => Sends(u, f)
  BY <1>3 DEF Sent, Sends
<1>5. ~(Open(u, s, j.n) /\ j.op # "apply") => down' = down
  BY <1>3 DEF Sent
<1>6. Open(u, s, j.n) => Mine(s, u)
  BY <1>1 DEF Open, Mine
<1>7. ASSUME NEW v \in Users, NEW g, Sends(v, g) PROVE g = f /\ v = u /\ Mine(s, v)
  <2>1. Sends(u, f) /\ Mine(s, u)
    BY <1>4, <1>5, <1>6, <1>7, OneSent
  <2> QED
    BY <1>2, <1>7, <2>1, OneSent
<1> QED
  BY <1>1, <1>2, <1>3, <1>4, <1>5, <1>6, <1>7 DEF ServerMoves

\* A handler that gives up answers with an error.
LEMMA RefuseMoves ==
  ASSUME IInv, NEW s \in Servers, job[s] # Idle, Refuse(s)
  PROVE  /\ ServerMoves(s, Idle) /\ UNCHANGED <<uip, mgr>>
         /\ \A v \in Users : \A g : Sends(v, g) => ~g.ok
<1>1. PICK f : /\ Finish(s, f) /\ f.op = job[s].op /\ ~f.ok
  BY DEF Refuse
<1> QED
  BY <1>1, FinishMoves

\* Nothing is saved: what a handler has stays with it, or is sent.
LEMMA ServesStill ==
  ASSUME SInv, NEW s \in Servers, NEW k, ServerMoves(s, k), k # Idle => SavedOk(k),
         \A r \in chat' : r.live => r \in chat, unpushed \subseteq unpushed',
         \A p \in Pairs : threadOf[p] # 0 => threadOf'[p] = threadOf[p],
         uip' = uip \/ \A u \in Users : Here(u)' => Here(u),
         \A v \in Users : \A f : Sends(v, f) => ~(f.op = "load" /\ f.ok),
         \A u \in Users : \A r \in Owed(u)' : Here(u) /\ Coming(s, u, r) =>
              Coming(s, u, r)' \/ \E f : Sends(u, f) /\ Carries(f, r)
  PROVE  Serves(s, k)
<1>1. \A u \in Users : Owed(u)' \subseteq Owed(u)
  BY DEF Owed
<1>2. \A u \in Users : Here(u)' => Here(u)
  BY DEF Here, Located, ServerMoves
<1> QED
  BY <1>1, <1>2 DEF Serves

\* Nothing has been saved either.
LEMMA ServesNothing ==
  ASSUME SInv, NEW s \in Servers, NEW k, ServerMoves(s, k), k # Idle => SavedOk(k), chat' = chat,
         unpushed' = unpushed, \A p \in Pairs : threadOf[p] # 0 => threadOf'[p] = threadOf[p],
         uip' = uip \/ \A u \in Users : Here(u)' => Here(u),
         \A v \in Users : \A f : Sends(v, f) => ~(f.op = "load" /\ f.ok),
         job[s].op \notin {"text", "auth"} \/ job[s].saved = <<>>
  PROVE  Serves(s, k)
<1>1. \A u \in Users : \A r : ~Coming(s, u, r)
  BY DEF Coming, HasSaved
<1> QED
  BY <1>1, ServesStill

\* A handler that gives up before it has saved anything.
LEMMA RefuseServes ==
  ASSUME SInv, IInv', Counted, NEW s \in Servers, job[s] # Idle, Refuse(s), UNCHANGED <<chat, threadOf, unpushed>>,
         job[s].op \notin {"text", "auth"} \/ job[s].saved = <<>>
  PROVE  SInv'
<1>1. /\ ServerMoves(s, Idle) /\ UNCHANGED <<uip, mgr>>
      /\ \A v \in Users : \A g : Sends(v, g) => ~g.ok
  BY RefuseMoves DEF SInv
<1>2. Serves(s, Idle)
  BY <1>1, ServesNothing
<1>3. Stationary(s, Idle)
  BY <1>1 DEF Stationary, Idle
<1> QED
  BY <1>1, <1>2, <1>3, ServerLocation, ServerKeeps

-----------------------------------------------------------------------------
(* The login.                                                              *)

\* A login goes on, with what it answers.
AnswersWith(s, pc, out) == job' = [job EXCEPT ![s].pc = pc, ![s].out = out]
\* That is a step of a server that does not end its job.
LEMMA LoginServes ==
  ASSUME SInv, NEW s \in Servers, job[s] # Idle, job[s].op = "login",
         NEW pc \in {"applies", "friends", "locate", "bind", "greet"}, NEW out,
         AnswersWith(s, pc, out) \/ GoTo(s, pc),
         UNCHANGED <<store, clients, unpushed>>, uip' = uip \/ \A u \in Users : Here(u)' => Here(u)
  PROVE  \E k : Serves(s, k) /\ k.pc = pc /\ k.op = "login" /\ down' = down
<1>1. IInv
  BY DEF SInv
<1>2. Full(job[s])
  BY <1>1, Working
<1>3. job = [t \in Servers |-> job[t]]
  BY <1>1 DEF IInv, JobInv
<1>4. PICK o, k : /\ k = Moved(job[s], pc, job[s].thread, job[s].retry, job[s].todo,
                               job[s].saved, job[s].dst, o)
                  /\ job' = [job EXCEPT ![s] = k]
  <2>1. PICK j : j = job[s]
    OBVIOUS
  <2>2. CASE GoTo(s, pc)
    <3>1. PICK k : k = ToPc(j, pc)
      OBVIOUS
    <3>2. job' = [job EXCEPT ![s] = k]
      BY <1>3, <2>1, <2>2, <3>1 DEF GoTo, ToPc
    <3>3. k = Moved(j, pc, j.thread, j.retry, j.todo, j.saved, j.dst, j.out)
      BY <1>2, <2>1, <3>1, Assignments
    <3> QED
      BY <2>1, <3>2, <3>3
  <2>3. CASE AnswersWith(s, pc, out)
    <3>1. PICK k : k = ToOut(j, pc, out)
      OBVIOUS
    <3>2. job' = [job EXCEPT ![s] = k]
      BY <1>3, <2>1, <2>3, <3>1 DEF ToOut, AnswersWith
    <3>3. k = Moved(j, pc, j.thread, j.retry, j.todo, j.saved, j.dst, out)
      BY <1>2, <2>1, <3>1, Assignments
    <3> QED
      BY <2>1, <3>2, <3>3
  <2> QED
    BY <2>2, <2>3
<1>5. /\ k # Idle /\ k.op = job[s].op /\ k.by = job[s].by /\ k.n = job[s].n /\ k.req = job[s].req
      /\ k.pc = pc
  BY <1>1, <1>4, JobGoes
<1>6. ServerMoves(s, k) /\ down' = down
  BY <1>4, <1>5 DEF ServerMoves, clients
<1>7. SavedOk(k)
  BY <1>5 DEF SavedOk
<1>8. \A v \in Users : \A f : ~Sends(v, f)
  BY <1>1, <1>6, OneSent
<1>9. Serves(s, k)
  BY <1>6, <1>7, <1>8, ServesNothing DEF store
<1> QED
  BY <1>5, <1>6, <1>9

\* The lists are read.
LEMMA ListSyncs ==
  ASSUME SInv, IInv', Counted, NEW s \in Servers, At(s, "threads") \/ At(s, "applies") \/ At(s, "friends"),
         NEW pc \in {"applies", "friends", "locate"}, NEW out, AnswersWith(s, pc, out),
         UNCHANGED <<store, uip, mgr, clients, unpushed>>
  PROVE  SInv'
<1>1. IInv
  BY DEF SInv
<1>2. job[s] # Idle /\ job[s].op = "login"
  BY <1>1, LoginAt
<1>3. PICK k : Serves(s, k) /\ k.pc = pc /\ down' = down
  BY <1>2, LoginServes
<1>4. \A v \in Users : \A f : ~Sends(v, f)
  BY <1>1, <1>3, OneSent
<1>5. Stationary(s, k)
  BY <1>3, <1>4 DEF Stationary
<1> QED
  BY <1>3, <1>5, ServerLocation, ServerKeeps DEF Serves

\* Each of the three, with what the answer gets from it.
LEMMA ListsSync ==
  ASSUME SInv, IInv', Counted, NEW s \in Servers,
         LoginThreads(s) \/ LoginApplies(s) \/ LoginFriends(s)
  PROVE  SInv'
<1>1. job = [t \in Servers |-> job[t]]
  BY DEF SInv, IInv, JobInv
<1>2. ASSUME NEW pc \in {"threads", "applies"}, NEW next \in {"applies", "friends"}, NEW out,
             ReadList(s, pc, next, out)
      PROVE  SInv'
  <2>1. PICK ok \in BOOLEAN : /\ Works(ok)
                              /\ job' = [job EXCEPT ![s].pc = next, ![s].out = IF ok THEN out ELSE @]
    BY <1>2 DEF ReadList
  <2>2. PICK o : o = IF ok THEN out ELSE job[s].out
    OBVIOUS
  <2>3. AnswersWith(s, next, o)
    BY <1>1, <2>1, <2>2 DEF AnswersWith
  <2>4. UNCHANGED <<store, uip, mgr, clients, unpushed>> /\ At(s, pc)
    BY <1>2, <2>1 DEF ReadList, Works
  <2> QED
    BY <1>2, <2>3, <2>4, ListSyncs
<1>3. CASE LoginFriends(s)
  <2>1. PICK skipped \in SUBSET Users : /\ Works(skipped = {})
              /\ job' = [job EXCEPT ![s].pc = "locate",
                                    ![s].out.friends = FriendList(job[s].by, skipped)]
    BY <1>3 DEF LoginFriends
  <2>2. PICK o : o = [job[s].out EXCEPT !.friends = FriendList(job[s].by, skipped)]
    OBVIOUS
  <2>3. AnswersWith(s, "locate", o)
    BY <1>1, <2>1, <2>2 DEF AnswersWith
  <2>4. UNCHANGED <<store, uip, mgr, clients, unpushed>> /\ At(s, "friends")
    BY <1>3, <2>1 DEF LoginFriends, Works
  <2> QED
    BY <2>3, <2>4, ListSyncs
<1> QED
  BY <1>2, <1>3 DEF LoginThreads, LoginApplies

\* The place is written: no other login of the user is at that, and none of
\* his has been answered.
LEMMA LocateSyncs ==
  ASSUME SInv, IInv', Counted, NEW s \in Servers, LoginLocate(s)
  PROVE  SInv'
<1>1. PICK u, j, old : u = job[s].by /\ j = job[s] /\ old = uip[u].srv
  OBVIOUS
<1>2. IInv /\ SessionInv
  BY DEF SInv, IInv
<1>3. j # Idle /\ j.op = "login" /\ u \in Users /\ j.pc = "locate"
  BY <1>1, <1>2, LoginAt DEF LoginLocate, At
<1>4. CASE ~Open(u, s, j.n)
  <2>1. Refuse(s) /\ UNCHANGED <<chat, threadOf, unpushed>>
    BY <1>1, <1>4 DEF LoginLocate, counts, store
  <2> QED
    BY <1>1, <1>3, <2>1, RefuseServes
<1>5. CASE Open(u, s, j.n)
  <2>1. PICK kicked \in BOOLEAN, set \in BOOLEAN :
              /\ Works(kicked /\ set)
              /\ mgr' = IF old = NoServer \/ ~kicked THEN mgr
                        ELSE [mgr EXCEPT ![old][u] = 0]
              /\ uip' = IF set THEN [uip EXCEPT ![u].srv = s] ELSE uip
    BY <1>1, <1>5 DEF LoginLocate
  <2>2. GoTo(s, "bind") /\ UNCHANGED <<store, clients, unpushed>> /\ ~Locked(u)
    BY <1>1, <1>5, <2>1 DEF LoginLocate, Works
  <2>3. PICK k : Serves(s, k) /\ k.pc = "bind" /\ down' = down
    <3>1. Mine(s, u) /\ LoginOf(u)
      BY <1>1, <1>3, <1>5 DEF Mine, Open, SInv, LoginInv
    <3>2. phase'[u] # "ready"
      BY <1>1, <1>3, <2>2, <3>1 DEF LoginOf, clients
    <3>3. \A v \in Users : v # u => uip'[v] = uip[v]
      BY <1>2, <1>3, <2>1 DEF SessionInv
    <3>4. \A v \in Users : Here(v)' => Here(v)
      BY <2>2, <3>2, <3>3 DEF Here, Located, clients
    <3> QED
      BY <1>1, <1>3, <2>2, <3>4, LoginServes
  <2>4. /\ job'[s] = k /\ \A t \in Servers : t # s => job'[t] = job[t]
        /\ \A t \in Servers, v \in Users : Mine(t, v)' => Mine(t, v)
    BY <1>2, <2>3, MovedAt DEF Serves
  <2>5. k.by = u /\ UNCHANGED <<link, phase>>
    BY <1>1, <2>3 DEF Serves, ServerMoves, Idle
  <2>6. faults' = 0 => uip'[u].srv = link[u].srv
    <3>1. CASE set
      BY <1>2, <1>3, <1>5, <2>1, <3>1 DEF SessionInv, Open
    <3>2. CASE ~set
      BY <1>2, <2>1, <3>2 DEF Works, Try, IInv, FaultInv
    <3> QED
      BY <3>1, <3>2
  <2>7. \A v \in Users : v # u => /\ uip'[v] = uip[v]
                                  /\ \A t \in Servers : mgr'[t][v] = mgr[t][v]
    BY <1>2, <2>1 DEF SessionInv
  <2>8. \A t \in Servers : mgr'[t][u] \in {mgr[t][u], 0}
    BY <1>2, <2>1 DEF SessionInv
  <2>9. ~Settled(u)
    <3>1. Mine(s, u)
      BY <1>1, <1>3, <1>5 DEF Mine, Open
    <3>2. LoginOf(u)
      BY <1>3 DEF SInv, LoginInv
    <3>3. phase[u] # "ready"
      BY <1>1, <1>3, <3>1, <3>2 DEF LoginOf
    <3>4. phase[u] = "connecting" => ~Answering(u)
      BY <3>1, <3>2 DEF LoginOf
    <3>5. \A t \in Servers : phase[u] = "connecting" /\ Mine(t, u) => ~At(t, "greet")
      BY <1>1, <1>2, <1>3, <3>1, MineIsOne DEF At
    <3> QED
      BY <3>3, <3>4, <3>5 DEF Settled, Answering
  <2>10. ASSUME NEW v \in Users PROVE LocationOf(v)'
    <3>1. LocationOf(v)
      BY DEF SInv, LocationInv
    <3>2. Settled(v)' => Settled(v)
      BY <2>3, <2>4, <2>5 DEF Settled, At
    <3>3. \A t \in Servers : Binding(t, v)' => Binding(t, v) \/ (t = s /\ v = u)
      BY <2>4, <2>5 DEF Binding, At
    <3>4. CASE v = u
      <4>1. \A t \in Servers : Binding(t, v)' => t = s
        BY <2>2, <3>3, <3>4 DEF Locked, Binding
      <4> QED
        BY <2>5, <2>6, <2>9, <2>8, <3>1, <3>2, <3>4, <4>1 DEF LocationOf, Counted
    <3>5. CASE v # u
      <4>1. Locked(v)' => Locked(v)
        BY <3>3, <3>5 DEF Locked, Binding
      <4>2. Settled(v) => link[v].srv \in Servers
        <5>1. Settled(v) => phase[v] # "off"
          BY DEF Settled
        <5> QED
          BY <1>2, <5>1 DEF SessionInv, Links
      <4> QED
        BY <2>4, <2>5, <2>7, <3>1, <3>2, <3>3, <3>5, <4>1, <4>2 DEF LocationOf, Counted
    <3> QED
      BY <3>4, <3>5
  <2> QED
    BY <2>3, <2>10, ServerKeeps DEF LocationInv
<1> QED
  BY <1>4, <1>5

\* The lock was not to be had.
LEMMA UnlockedSyncs ==
  ASSUME SInv, IInv', Counted, NEW s \in Servers, LoginUnlocked(s)
  PROVE  SInv'
<1>1. job[s] # Idle /\ job[s].op = "login"
  BY LoginAt DEF LoginUnlocked, SInv
<1>2. Refuse(s) /\ UNCHANGED <<chat, threadOf, unpushed>>
  BY DEF LoginUnlocked, Works, store
<1> QED
  BY <1>1, <1>2, RefuseServes

\* UserMgr has the session; the place is still the one the lock guards.
LEMMA BindSyncs ==
  ASSUME SInv, IInv', Counted, NEW s \in Servers, LoginBind(s)
  PROVE  SInv'
<1>1. PICK u, j : u = job[s].by /\ j = job[s]
  OBVIOUS
<1>2. IInv /\ SessionInv
  BY DEF SInv, IInv
<1>3. j # Idle /\ j.op = "login" /\ u \in Users /\ Binding(s, u)
  BY <1>1, <1>2, LoginAt DEF LoginBind, Binding
<1>4. PICK set \in BOOLEAN :
         /\ mgr' = [mgr EXCEPT ![s][u] = j.n] /\ Works(set)
         /\ uip' = IF set THEN [uip EXCEPT ![u].n = j.n] ELSE uip
         /\ GoTo(s, "greet") /\ UNCHANGED <<store, clients, unpushed>>
  BY <1>1 DEF LoginBind, Works
<1>5. PICK k : Serves(s, k) /\ k.pc = "greet" /\ down' = down
  <2>1. \A v \in Users : uip'[v].srv = uip[v].srv
    BY <1>2, <1>4 DEF SessionInv
  <2>2. \A v \in Users : Here(v)' => Here(v)
    BY <1>4, <2>1 DEF Here, Located, clients
  <2> QED
    BY <1>1, <1>3, <1>4, <2>2, LoginServes
<1>6. /\ job'[s] = k /\ \A t \in Servers : t # s => job'[t] = job[t]
      /\ \A t \in Servers, v \in Users : Mine(t, v)' => Mine(t, v)
  BY <1>2, <1>5, MovedAt DEF Serves
<1>7. k.by = u /\ UNCHANGED <<link, phase>>
  BY <1>1, <1>5 DEF Serves, ServerMoves, Idle
<1>8. /\ mgr'[s][u] = j.n
      /\ \A v \in Users : v # u => /\ uip'[v] = uip[v]
                                  /\ \A t \in Servers : mgr'[t][v] = mgr[t][v]
  BY <1>2, <1>3, <1>4 DEF SessionInv
<1>9. ASSUME NEW v \in Users PROVE LocationOf(v)'
  <2>1. LocationOf(v)
    BY DEF SInv, LocationInv
  <2>2. \A t \in Servers : Binding(t, v)' => Binding(t, v) /\ t # s
    BY <1>5, <1>6 DEF Binding, At
  <2>3. CASE v = u
    <3>1. Locked(u) /\ ~Locked(u)'
      BY <1>3, <2>1, <2>2, <2>3 DEF Locked, Binding, LocationOf
    <3>2. ASSUME Settled(u)' PROVE /\ mgr'[link'[u].srv][u] = link'[u].n
                                   /\ faults' = 0 => uip'[u] = link'[u]
      <4>1. ~Settled(u)
        BY <2>1, <2>3, <3>1 DEF LocationOf
      <4>2. Mine(s, u) /\ phase[u] # "off"
        <5>1. phase[u] = "connecting"
          BY <1>7, <3>2, <4>1 DEF Settled
        <5>2. PICK t \in Servers : Mine(t, u)' /\ At(t, "greet")'
          BY <1>5, <1>7, <3>2, <4>1 DEF Settled
        <5>3. t = s
          BY <1>3, <1>6, <4>1, <5>1, <5>2 DEF Settled, At
        <5> QED
          BY <1>3, <1>6, <5>1, <5>2, <5>3
      <4>3. s = link[u].srv /\ j.n = link[u].n /\ (faults = 0 => uip[u].srv = s)
        BY <1>1, <1>2, <1>3, <2>1, <2>3, <4>2, MineIsOne DEF LocationOf, Mine
      <4>4. CASE set
        <5>1. uip'[u] = [srv |-> uip[u].srv, n |-> j.n] /\ link[u] = [srv |-> link[u].srv, n |-> link[u].n]
          BY <1>2, <1>3, <1>4, <4>4 DEF SessionInv, Links
        <5> QED
          BY <1>7, <1>8, <4>3, <5>1 DEF Counted
      <4>5. CASE ~set
        <5>1. faults' # 0
          BY <1>2, <1>4, <4>5 DEF Works, Try, IInv, FaultInv
        <5> QED
          BY <1>7, <1>8, <4>3, <5>1
      <4> QED
        BY <4>4, <4>5
    <3> QED
      <4>1. ASSUME NEW t \in Servers, phase[u] # "off", mgr'[t][u] = link[u].n PROVE t = link[u].srv
        <5>1. t # s => mgr'[t][u] = mgr[t][u]
          BY <1>2, <1>4 DEF SessionInv
        <5>2. t = s => j.n = link[u].n /\ Current(s, j)
          BY <1>1, <1>2, <1>3, <1>8, <4>1, JobFits DEF IInv
        <5> QED
          BY <1>1, <1>2, <1>3, <2>1, <2>3, <4>1, <5>1, <5>2 DEF LocationOf, Current, SessionInv
      <4> QED
        BY <1>3, <1>6, <1>7, <2>1, <2>2, <2>3, <3>1, <3>2, <4>1 DEF LocationOf
  <2>4. CASE v # u
    <3>1. Locked(v)' => Locked(v)
      BY <2>2 DEF Locked, Binding
    <3>2. Settled(v)' => Settled(v)
      BY <1>5, <1>6, <1>7, <2>4 DEF Settled, At, Mine
    <3>3. Settled(v) => link[v].srv \in Servers
      <4>1. Settled(v) => phase[v] # "off"
        BY DEF Settled
      <4> QED
        BY <1>2, <4>1 DEF SessionInv, Links
    <3> QED
      BY <1>6, <1>7, <1>8, <2>1, <2>2, <2>4, <3>1, <3>2, <3>3 DEF LocationOf, Counted
  <2> QED
    BY <2>3, <2>4
<1> QED
  BY <1>5, <1>9, ServerKeeps DEF LocationInv

\* The answer goes out; the client has been found since the step before.
LEMMA GreetSyncs ==
  ASSUME SInv, IInv', Counted, NEW s \in Servers, LoginGreet(s)
  PROVE  SInv'
<1>1. PICK u, j : u = job[s].by /\ j = job[s]
  OBVIOUS
<1>2. IInv
  BY DEF SInv
<1>3. j # Idle /\ j.op = "login" /\ u \in Users /\ At(s, "greet")
  BY <1>1, <1>2, LoginAt DEF LoginGreet
<1>4. j.out.op = "login" /\ Finish(s, j.out) /\ UNCHANGED <<store, counts>>
  <2>1. j.out \in Logins(FriendsOf(u), ThreadsOf(u))
    BY <1>1, <1>2, <1>3, Working
  <2> QED
    BY <1>1, <2>1 DEF LoginGreet, Logins
<1>5. /\ ServerMoves(s, Idle) /\ UNCHANGED <<uip, mgr>>
      /\ \A v \in Users : \A g : Sends(v, g) => g = j.out /\ v = u /\ Mine(s, v)
  BY <1>1, <1>2, <1>3, <1>4, FinishMoves
<1>6. Serves(s, Idle)
  <2>1. \A v \in Users : \A g : Sends(v, g) => g.op # "load"
    BY <1>4, <1>5
  <2> QED
    BY <1>1, <1>3, <1>4, <1>5, <2>1, ServesNothing DEF store, counts
<1>7. /\ job'[s] = Idle /\ \A t \in Servers : t # s => job'[t] = job[t]
      /\ \A t \in Servers, v \in Users : Mine(t, v)' => Mine(t, v)
  BY <1>2, <1>5, MovedAt
<1>8. UNCHANGED <<link, phase, uip, mgr>>
  BY <1>5 DEF ServerMoves
<1>9. ASSUME NEW v \in Users PROVE LocationOf(v)'
  <2>1. LocationOf(v)
    BY DEF SInv, LocationInv
  <2>2. \A t \in Servers : \A pc \in {"bind", "greet"} : At(t, pc)' => At(t, pc) /\ job'[t] = job[t]
    BY <1>7 DEF At, Idle
  <2>3. \A t \in Servers : Binding(t, v)' => Binding(t, v)
    BY <2>2 DEF Binding
  <2>4. Locked(v)' => Locked(v)
    BY <2>3 DEF Locked, Binding
  <2>5. ASSUME Settled(v)', ~Settled(v) PROVE FALSE
    <3>1. ~(down' = down)
      BY <1>7, <1>8, <2>2, <2>5 DEF Settled
    <3>2. PICK w \in Users : \E f : Sends(w, f)
      BY <1>5, <3>1 DEF ServerMoves
    <3>3. PICK f : Sends(w, f)
      BY <3>2
    <3>4. w = u /\ Mine(s, u)
      BY <1>5, <3>3
    <3>5. v # u
      BY <1>3, <1>8, <2>5, <3>4 DEF Settled
    <3>6. down'[v] = down[v]
      BY <1>2, <3>3, <3>4, <3>5, SentAt
    <3> QED
      BY <1>7, <1>8, <2>2, <2>5, <3>6 DEF Settled
  <2> QED
    BY <1>7, <1>8, <2>1, <2>3, <2>4, <2>5 DEF LocationOf, Counted
<1> QED
  BY <1>6, <1>9, ServerKeeps DEF LocationInv

\* The three steps that read, and the four of the place.
LEMMA LoginSyncs ==
  ASSUME SInv, IInv', Counted, NEW s \in Servers, LoginHandler(s)
  PROVE  SInv'
<1>1. LoginThreads(s) \/ LoginApplies(s) \/ LoginFriends(s) => SInv'
  BY ListsSync
<1> QED
  BY <1>1, LocateSyncs, UnlockedSyncs, BindSyncs, GreetSyncs DEF LoginHandler

-----------------------------------------------------------------------------
(* Steps that do not concern a user.                                       *)

\* What a user sees, and what the servers do for him.
SameFor(v) ==
    /\ UNCHANGED <<job, threadOf, chat, unpushed>>
    /\ link'[v] = link[v] /\ up'[v] = up[v] /\ down'[v] = down[v] /\ phase'[v] = phase[v]
    /\ cache'[v] = cache[v] /\ synced'[v] = synced[v]

\* A login stands where it stood, ...
LEMMA LoginSame ==
  ASSUME NEW v \in Users, SameFor(v), LoginOf(v)
  PROVE  LoginOf(v)'
<1>1. \A s : Mine(s, v)' <=> Mine(s, v)
  BY DEF SameFor, Mine
<1>2. Answering(v)' <=> Answering(v)
  BY DEF SameFor, Answering
<1> QED
  BY <1>1, <1>2 DEF LoginOf, SameFor

\* ... the user is where he was, ...
LEMMA LocationSame ==
  ASSUME NEW v \in Users, SameFor(v), faults' = 0 => faults = 0 /\ uip'[v] = uip[v],
         \A s \in Servers : mgr'[s][v] = mgr[s][v] \/ (s # link[v].srv /\ mgr'[s][v] = 0),
         IInv, LocationOf(v)
  PROVE  LocationOf(v)'
<1>1. \A s : Mine(s, v)' <=> Mine(s, v)
  BY DEF SameFor, Mine
<1>2. (Locked(v)' <=> Locked(v)) /\ \A s : Binding(s, v)' <=> Binding(s, v)
  BY DEF SameFor, Locked, Binding, At
<1>3. Settled(v)' <=> Settled(v)
  BY <1>1 DEF SameFor, Settled, At
<1>4. Settled(v) => link[v].srv \in Servers
  <2>1. Settled(v) => phase[v] # "off"
    BY DEF Settled
  <2> QED
    BY <2>1 DEF IInv, SessionInv, Links
<1> QED
  BY <1>1, <1>2, <1>3, <1>4 DEF LocationOf, SameFor

\* ... and what is owed to him is where it was: as long as nothing is told
\* him that was not, the rest follows.
LEMMA TalkSame ==
  ASSUME NEW v \in Users, UNCHANGED <<threadOf, chat, unpushed>>, down'[v] = down[v], cache'[v] = cache[v],
         \A s \in Servers : \A r : Coming(s, v, r)' <=> Coming(s, v, r)
  PROVE  /\ Owed(v)' = Owed(v) /\ \A r : Covered(v, r)' <=> Covered(v, r)
         /\ \A t : KnownIn(v, t)' <=> KnownIn(v, t)
         /\ \A t, after : UpTo(v, t, after)' <=> UpTo(v, t, after)
         /\ \A f, i : PageOk(v, f, i)' <=> PageOk(v, f, i)
<1>1. \A r, i : Told(v, r, i)' <=> Told(v, r, i)
  BY DEF Told, Carries
<1>2. \A w : Known(v, w)' <=> Known(v, w)
  BY DEF Known
<1>3. \A r : Covered(v, r)' <=> Covered(v, r)
  BY <1>1, <1>2 DEF Covered, HasIt, ShownWith
<1>4. Owed(v)' = Owed(v)
  BY DEF Owed
<1>5. \A t : KnownIn(v, t)' <=> KnownIn(v, t)
  BY <1>2 DEF KnownIn
<1>6. \A t, after : UpTo(v, t, after)' <=> UpTo(v, t, after)
  BY <1>3, <1>4, <1>5 DEF UpTo
<1>7. \A f, i : PageOk(v, f, i)' <=> PageOk(v, f, i)
  BY <1>1, <1>3, <1>4 DEF PageOk, PageOf
<1> QED
  BY <1>3, <1>4, <1>5, <1>6, <1>7

\* So it is for a user whom the step does not concern.
LEMMA SyncSame ==
  ASSUME NEW v \in Users, SameFor(v), uip'[v] = uip[v] \/ (Here(v)' => Here(v)), SyncOf(v)
  PROVE  SyncOf(v)'
<1>1. \A s, r : Coming(s, v, r)' <=> Coming(s, v, r)
  BY DEF SameFor, Coming, HasSaved, WillPush, WillAnswer
<1>2. /\ Owed(v)' = Owed(v) /\ \A r : Covered(v, r)' <=> Covered(v, r)
      /\ \A t : KnownIn(v, t)' <=> KnownIn(v, t)
      /\ \A t, after : UpTo(v, t, after)' <=> UpTo(v, t, after)
      /\ \A f, i : PageOk(v, f, i)' <=> PageOk(v, f, i)
  BY <1>1, TalkSame DEF SameFor
<1>3. \A s : Mine(s, v)' <=> Mine(s, v)
  BY DEF SameFor, Mine
<1>4. Here(v)' => Here(v)
  BY DEF SameFor, Here, Located
<1> QED
  BY <1>2, <1>3, <1>4 DEF SyncOf, SameFor

\* A closed session is removed: nobody's who is settled.
LEMMA CleanupSyncs ==
  ASSUME SInv, IInv', Counted, NEW s \in Servers, NEW u \in Users, Cleanup(s, u)
  PROVE  SInv'
<1>1. IInv /\ SessionInv
  BY DEF SInv, IInv
<1>2. PICK n : n = mgr[s][u]
  OBVIOUS
<1>3. /\ n # 0 /\ ~Open(u, s, n) /\ mgr' = [mgr EXCEPT ![s][u] = 0]
      /\ UNCHANGED <<store, job, clients, unpushed>>
  BY <1>2 DEF Cleanup, Works, counts
<1>4. \/ uip' = uip
      \/ /\ uip[u].n = n
         /\ \E srv \in {NoServer, uip[u].srv}, m \in {0, n} :
              uip' = [uip EXCEPT ![u] = [srv |-> srv, n |-> m]]
  BY <1>2 DEF Cleanup
<1>5. LoginInv' /\ SavedInv' /\ \A v \in Users : SameFor(v)
  <2>1. \A v \in Users : SameFor(v)
    BY <1>3 DEF SameFor, store, clients
  <2>2. LoginInv'
    BY <1>3, <2>1, LoginSame DEF SInv, LoginInv, clients
  <2>3. SavedInv'
    BY <1>3 DEF SInv, SavedInv
  <2> QED
    BY <2>1, <2>2, <2>3
<1>6. SyncInv'
  <2>1. ASSUME NEW v \in Users, Here(v)' PROVE Here(v)
    <3>1. link'[v].srv # NoServer /\ link' = link /\ phase' = phase
      BY <1>3, <2>1 DEF Here, IInv, SessionInv, clients
    <3>2. uip'[v].srv \in {NoServer, uip[v].srv}
      BY <1>1, <1>4 DEF SessionInv
    <3> QED
      BY <2>1, <3>1, <3>2 DEF Here, Located
  <2> QED
    BY <1>5, <2>1, SyncSame DEF SInv, SyncInv
<1>7. link \in [Users -> Links] /\ link' = link /\ \A v \in Users : Settled(v) => phase[v] # "off"
  BY <1>1, <1>3 DEF SessionInv, clients, Settled
<1>8. ASSUME NEW v \in Users, Settled(v) \/ v # u PROVE LocationOf(v)'
  <2>1. LocationOf(v) /\ SameFor(v)
    BY <1>5 DEF SInv, LocationInv
  <2>2. v = u => /\ phase[u] # "off" /\ mgr[link[u].srv][u] = link[u].n
                 /\ link[u] # [srv |-> s, n |-> n] /\ (faults = 0 => uip[u] = link[u])
    BY <1>3, <1>7, <1>8, <2>1 DEF LocationOf, Open
  <2>3. v = u => s # link[u].srv
    <3>1. PICK l : l = link[u]
      OBVIOUS
    <3>2. l \in Links
      BY <1>7, <3>1
    <3>3. l = [srv |-> l.srv, n |-> l.n]
      BY <3>2 DEF Links
    <3> QED
      BY <1>2, <2>2, <3>1, <3>3
  <2>4. v = u => link[u].n # n
    BY <1>2, <2>1, <2>2, <2>3 DEF LocationOf
  <2>5. faults' = 0 => faults = 0 /\ uip'[v] = uip[v]
    <3>1. ASSUME faults' = 0 PROVE uip'[v] = uip[v]
      <4>1. faults = 0
        BY <3>1 DEF Counted
      <4>2. CASE v = u
        BY <1>4, <2>2, <2>4, <4>1, <4>2
      <4>3. CASE v # u
        BY <1>1, <1>4, <4>3 DEF SessionInv
      <4> QED
        BY <4>2, <4>3
    <3> QED
      BY <3>1 DEF Counted
  <2>6. \A t \in Servers : mgr'[t][v] = mgr[t][v] \/ (t # link[v].srv /\ mgr'[t][v] = 0)
    BY <1>1, <1>3, <2>3 DEF SessionInv
  <2> QED
    BY <1>1, <2>1, <2>5, <2>6, LocationSame
<1>9. ASSUME ~Settled(u) PROVE LocationOf(u)'
  <2>1. LocationOf(u) /\ SameFor(u)
    BY <1>5 DEF SInv, LocationInv
  <2>2. (\A t : Binding(t, u)' <=> Binding(t, u)) /\ (\A t : Mine(t, u)' <=> Mine(t, u))
    BY <2>1 DEF SameFor, Binding, Mine, At
  <2>3. ~Settled(u)'
    BY <1>9, <2>1, <2>2 DEF SameFor, Settled, At
  <2>4. \A t \in Servers : mgr'[t][u] \in {mgr[t][u], 0}
    BY <1>1, <1>2, <1>3 DEF SessionInv
  <2>5. ASSUME NEW t \in Servers, Binding(t, u), Mine(t, u), phase[u] # "off", faults' = 0
        PROVE  uip'[u] = uip[u]
    <3>1. CASE uip' = uip
      BY <3>1
    <3>2. CASE uip' # uip
      BY <1>2, <2>5, <3>2 DEF Cleanup, Locked, Binding, Works, Try, IInv, FaultInv
    <3> QED
      BY <3>1, <3>2
  <2>6. phase'[u] # "off" => link'[u].n # 0 /\ \A t \in Servers : mgr'[t][u] = link'[u].n => t = link'[u].srv
    BY <2>1, <2>4 DEF LocationOf, SameFor
  <2>7. \A t \in Servers : Binding(t, u)' /\ Mine(t, u)' /\ phase'[u] # "off" /\ faults' = 0
                          => uip'[u].srv = link'[u].srv
    BY <2>1, <2>2, <2>5 DEF LocationOf, SameFor, Counted
  <2>8. \A t, w \in Servers : Binding(t, u)' /\ Binding(w, u)' => t = w
    BY <2>1, <2>2 DEF LocationOf
  <2> QED
    BY <2>3, <2>6, <2>7, <2>8 DEF LocationOf
<1> QED
  BY <1>5, <1>6, <1>8, <1>9 DEF SInv, LocationInv

-----------------------------------------------------------------------------
(* The conversation, the application and its approval.                     *)

\* Threads stay.
ThreadsStay == \A p \in Pairs : threadOf[p] # 0 => threadOf'[p] = threadOf[p]
\* They do in every step after which the tables say what they said.
LEMMA GrowsThreads ==
  ASSUME Grows
  PROVE  ThreadsStay
<1> SUFFICES ASSUME NEW u \in Users, NEW v \in Users, threadOf[<<u, v>>] # 0
             PROVE  threadOf'[<<u, v>>] = threadOf[<<u, v>>]
  BY DEF Pairs, ThreadsStay
<1>1. ThreadsOf(u)[v] # 0 => ThreadsOf(u)'[v] = ThreadsOf(u)[v]
  BY DEF Grows, Wider
<1> QED
  BY <1>1 DEF ThreadsOf

\* The job of s becomes k; where a conversation's handler may be once it has
\* begun.
Becomes(s, k) == job' = [job EXCEPT ![s] = k]
Conversed == {"find", "insert", "save", "route", "answer", "refuse"}

\* Before anything is saved, a handler may look for the conversation as it
\* likes.
LEMMA ConverseSyncs ==
  ASSUME SInv, IInv', Counted, NEW s \in Servers, job[s].op \in Conversing, At(s, "find") \/ At(s, "insert"),
         NEW pc \in Conversed, NEW thread, NEW retry,
         NEW k, k = Moved(job[s], pc, thread, retry, job[s].todo, job[s].saved, job[s].dst, job[s].out),
         Becomes(s, k), UNCHANGED <<chat, unpushed>>, UNCHANGED <<uip, mgr, clients>>,
         ThreadsStay
  PROVE  SInv'
<1>1. IInv /\ job[s] # Idle
  BY AtWork DEF SInv
<1>2. SavedOk(job[s]) /\ job[s].saved = <<>>
  BY <1>1 DEF SInv, SavedInv, SavedOk, At
<1>3. /\ k # Idle /\ k.op = job[s].op /\ k.by = job[s].by /\ k.n = job[s].n /\ k.req = job[s].req
      /\ k.pc = pc /\ k.todo = job[s].todo /\ k.saved = job[s].saved
  BY <1>1, JobGoes
<1>4. ServerMoves(s, k)
  BY <1>1, <1>3 DEF ServerMoves, clients, Becomes
<1>5. SavedOk(k)
  BY <1>2, <1>3 DEF SavedOk, Conversed
<1>6. \A v \in Users : \A f : ~Sends(v, f)
  BY <1>1, OneSent DEF clients
<1>7. Serves(s, k)
  BY <1>2, <1>4, <1>5, <1>6, ServesNothing DEF ThreadsStay
<1>8. Stationary(s, k)
  BY DEF Stationary, Conversing, Conversed
<1> QED
  BY <1>4, <1>7, <1>8, ServerLocation, ServerKeeps

\* The answer of GetOrCreatePrivateChat.
LEMMA WithThreadSyncs ==
  ASSUME SInv, IInv', Counted, NEW s \in Servers, At(s, "find") \/ At(s, "insert"), NEW x,
         job' = [job EXCEPT ![s] = WithThread(s, x)], UNCHANGED <<chat, unpushed>>,
         UNCHANGED <<uip, mgr, clients>>,
         ThreadsStay
  PROVE  SInv'
<1>1. IInv /\ job[s] # Idle
  BY AtWork DEF SInv
<1>2. Full(job[s]) /\ job[s].op \in Conversing
  BY <1>1, Working, ConversingAt DEF At
<1>3. PICK j, pc : j = job[s] /\ pc = NextPlace(j.op, x)
  OBVIOUS
<1>4. pc \in {"save", "route", "answer", "refuse"}
  BY <1>2, <1>3 DEF NextPlace, Conversing
<1>5. PICK k : k = ToThread(j, x, pc)
  OBVIOUS
<1>6. Becomes(s, k)
  BY <1>2, <1>3, <1>5, WithThreadGoes DEF Becomes
<1>7. k = Moved(j, pc, x, j.retry, j.todo, j.saved, j.dst, j.out)
  BY <1>2, <1>3, <1>5, Assignments
<1>8. k = Moved(job[s], pc, x, job[s].retry, job[s].todo, job[s].saved, job[s].dst, job[s].out)
  BY <1>3, <1>7
<1>9. pc \in Conversed
  BY <1>4 DEF Conversed
<1> QED
  BY <1>2, <1>6, <1>8, <1>9, ConverseSyncs

\* A second attempt.
LEMMA RetrySyncs ==
  ASSUME SInv, IInv', Counted, NEW s \in Servers, At(s, "find") \/ At(s, "insert"), RetryThread(s),
         UNCHANGED <<chat, unpushed>>, ThreadsStay, UNCHANGED <<uip, mgr, clients>>
  PROVE  SInv'
<1>1. IInv /\ job[s] # Idle
  BY AtWork DEF SInv
<1>2. Full(job[s]) /\ job[s].op \in Conversing
  BY <1>1, Working, ConversingAt DEF At
<1>3. CASE job' = [job EXCEPT ![s] = WithThread(s, 0)]
  BY <1>3, WithThreadSyncs DEF ThreadsStay
<1>4. CASE ~job[s].retry
  <2>1. PICK j, yes : j = job[s] /\ yes = TRUE
    OBVIOUS
  <2>2. PICK k : k = ToRetry(j, "find", yes)
    OBVIOUS
  <2>3. job' = [job EXCEPT ![s] = k]
    BY <1>4, <2>1, <2>2 DEF RetryThread, ToRetry
  <2>4. k = Moved(j, "find", j.thread, yes, j.todo, j.saved, j.dst, j.out)
    BY <1>2, <2>1, <2>2, Assignments
  <2> QED
    BY <1>2, <2>1, <2>3, <2>4, ConverseSyncs DEF Becomes, ThreadsStay, Conversed
<1> QED
  BY <1>3, <1>4 DEF RetryThread

\* The first part of an attempt, whatever it finds.
LEMMA FindSyncs ==
  ASSUME SInv, IInv', Counted, NEW s \in Servers, FindThread(s)
  PROVE  SInv'
<1>1. PICK j, t : j = job[s] /\ t = threadOf[<<j.by, j.req.to>>]
  OBVIOUS
<1>2. PICK ok \in BOOLEAN :
        /\ Works(ok)
        /\ IF ~ok THEN \/ RetryThread(s)
                       \/ /\ j.op = "text" /\ ~j.retry
                          /\ job' = [job EXCEPT ![s] = WithThread(s, 0)]
           ELSE job' = [job EXCEPT ![s] =
                          IF ~AreFriends(j.by, j.req.to) THEN WithThread(s, 0)
                          ELSE IF t # 0 THEN WithThread(s, t)
                          ELSE [j EXCEPT !.pc = "insert"]]
  BY <1>1 DEF FindThread
<1>3. /\ At(s, "find") /\ UNCHANGED <<uip, mgr, clients>> /\ UNCHANGED <<chat, threadOf, unpushed>>
  BY <1>2 DEF FindThread, Works, store
<1>4. CASE RetryThread(s)
  BY <1>3, <1>4, RetrySyncs DEF ThreadsStay
<1>5. CASE \E x : job' = [job EXCEPT ![s] = WithThread(s, x)]
  BY <1>3, <1>5, WithThreadSyncs DEF ThreadsStay
<1>6. CASE ok /\ AreFriends(j.by, j.req.to) /\ t = 0
  <2>1. IInv /\ job[s] # Idle
    BY <1>3, AtWork DEF SInv
  <2>2. Full(j) /\ j.op \in Conversing
    BY <1>1, <1>3, <2>1, Working, ConversingAt DEF At
  <2>3. PICK k : k = ToPc(j, "insert")
    OBVIOUS
  <2>4. job' = [job EXCEPT ![s] = k]
    BY <1>2, <1>6, <2>3 DEF ToPc
  <2>5. k = Moved(j, "insert", j.thread, j.retry, j.todo, j.saved, j.dst, j.out)
    BY <2>2, <2>3, Assignments
  <2> QED
    BY <1>1, <1>3, <2>2, <2>4, <2>5, ConverseSyncs DEF Becomes, ThreadsStay, Conversed
<1>7. \/ RetryThread(s) \/ (\E x : job' = [job EXCEPT ![s] = WithThread(s, x)])
      \/ (ok /\ AreFriends(j.by, j.req.to) /\ t = 0)
  BY <1>2
<1> QED
  BY <1>4, <1>5, <1>6, <1>7

\* The conversation is made, or was.
LEMMA InsertSyncs ==
  ASSUME SInv, IInv', Counted, NEW s \in Servers, InsertThread(s), StoreAssumption
  PROVE  SInv'
<1>1. At(s, "insert") /\ UNCHANGED <<uip, mgr, clients>>
  BY DEF InsertThread
<1>2. PICK u, v : u = job[s].by /\ v = job[s].req.to
  OBVIOUS
<1>3. \/ CreatePrivateChat(u, v) /\ job' = [job EXCEPT ![s] = WithThread(s, NewThread)]
      \/ CreatePrivateChat(u, v) /\ RetryThread(s)
      \/ RetryThread(s) /\ UNCHANGED store
  BY <1>2 DEF InsertThread, OrNot
<1>4. texts' = texts /\ unpushed' = unpushed /\ IInv /\ StoreInv
  BY DEF InsertThread, Works, Try, counts, SInv, IInv
<1>5. CASE CreatePrivateChat(u, v)
  <2>1. u \in Users /\ v \in Users
    BY <1>1, <1>2, <1>4, Finding
  <2>2. Grows /\ chat' = chat
    BY <1>4, <1>5, <2>1, ThreadMade DEF CreatePrivateChat
  <2>3. ThreadsStay
    BY <2>2, GrowsThreads
  <2>4. PICK x : x = NewThread
    OBVIOUS
  <2>5. CASE job' = [job EXCEPT ![s] = WithThread(s, NewThread)]
    <3>1. job' = [job EXCEPT ![s] = WithThread(s, x)]
      BY <2>4, <2>5
    <3> QED
      BY <1>1, <1>4, <2>2, <2>3, <3>1, WithThreadSyncs
  <2>6. CASE RetryThread(s)
    BY <1>1, <1>4, <2>2, <2>3, <2>6, RetrySyncs
  <2> QED
    BY <1>3, <2>5, <2>6
<1>6. CASE RetryThread(s) /\ UNCHANGED store
  <2>1. RetryThread(s) /\ UNCHANGED <<chat, unpushed>> /\ ThreadsStay
    BY <1>4, <1>6 DEF store, ThreadsStay
  <2> QED
    BY <1>1, <2>1, RetrySyncs
<1> QED
  BY <1>3, <1>5, <1>6

\* A handler other than the login, once it is known to serve.
LEMMA HandlerSyncs ==
  ASSUME SInv, IInv', Counted, NEW s \in Servers, job[s].op # "login", NEW k, Serves(s, k), UNCHANGED <<uip, mgr>>
  PROVE  SInv'
BY ServerLocation, ServerKeeps DEF Stationary, Serves

\* The application is stored.
LEMMA SaveApplySyncs ==
  ASSUME SInv, IInv', Counted, NEW s \in Servers, SaveApply(s)
  PROVE  SInv'
<1>1. /\ IInv /\ job[s] # Idle /\ job[s].op = "apply"
  BY AtWork DEF SInv, SaveApply
<1>2. CASE Works(FALSE) /\ Refuse(s) /\ OrNot(StoreApply(job[s].by, job[s].req.to))
  <2>1. UNCHANGED <<chat, threadOf, unpushed>>
    BY <1>2 DEF Works, store, OrNot, StoreApply
  <2> QED
    BY <1>1, <1>2, <2>1, RefuseServes
<1>3. CASE /\ StoreApply(job[s].by, job[s].req.to) /\ GoTo(s, "route")
           /\ UNCHANGED <<uip, mgr, clients, counts>>
  <2>1. PICK j, pc : j = job[s] /\ pc = "route"
    OBVIOUS
  <2>2. PICK k : k = ToPc(j, pc)
    OBVIOUS
  <2>3. Full(j) /\ job = [t \in Servers |-> job[t]]
    BY <1>1, <2>1, Working DEF IInv, JobInv
  <2>4. job' = [job EXCEPT ![s] = k]
    BY <1>3, <2>1, <2>2, <2>3 DEF GoTo, ToPc
  <2>5. k = Moved(job[s], pc, job[s].thread, job[s].retry, job[s].todo,
                 job[s].saved, job[s].dst, job[s].out)
    BY <2>1, <2>2, <2>3, Assignments
  <2>6. /\ k # Idle /\ k.op = job[s].op /\ k.by = job[s].by /\ k.n = job[s].n /\ k.req = job[s].req
        /\ k.pc = pc
    BY <1>1, <2>5, JobGoes
  <2>7. ServerMoves(s, k) /\ SavedOk(k)
    BY <1>1, <1>3, <2>1, <2>4, <2>6 DEF ServerMoves, SavedOk, clients
  <2>8. UNCHANGED <<chat, threadOf, unpushed>> /\ UNCHANGED <<uip, mgr, clients>>
    BY <1>3 DEF StoreApply, counts
  <2>9. \A v \in Users : \A f : ~Sends(v, f)
    BY <1>1, <2>8, OneSent DEF clients
  <2>10. Serves(s, k)
    BY <1>1, <2>7, <2>8, <2>9, ServesNothing
  <2> QED
    BY <1>1, <2>8, <2>10, HandlerSyncs
<1> QED
  BY <1>2, <1>3 DEF SaveApply

\* The friendship is stored; the welcome messages are still to be saved.
LEMMA ConfirmSyncs ==
  ASSUME SInv, IInv', Counted, NEW s \in Servers, Confirm(s), job[s].op = "auth"
  PROVE  SInv'
<1>1. /\ IInv /\ job[s] # Idle /\ job[s].saved = <<>>
  <2>1. IInv /\ job[s] # Idle
    BY AtWork DEF SInv, Confirm
  <2> QED
    BY <2>1 DEF SInv, SavedInv, SavedOk, Confirm, At
<1>2. CASE Works(FALSE) /\ Refuse(s) /\ OrNot(ConfirmApply(job[s].by, job[s].req.to))
  <2>1. UNCHANGED <<chat, threadOf, unpushed>>
    BY <1>2 DEF Works, store, OrNot, ConfirmApply
  <2> QED
    BY <1>1, <1>2, <2>1, RefuseServes
<1>3. CASE /\ ConfirmApply(job[s].by, job[s].req.to)
           /\ job' = [job EXCEPT ![s].pc = "find", ![s].todo = Welcomes(job[s].by, job[s].req.to)]
           /\ UNCHANGED <<uip, mgr, clients, counts>>
  <2>1. PICK j, pc, todo : j = job[s] /\ todo = Welcomes(job[s].by, job[s].req.to)
                         /\ pc = "find"
    OBVIOUS
  <2>2. PICK k : k = ToTodo(j, pc, todo)
    OBVIOUS
  <2>3. Full(j) /\ job = [t \in Servers |-> job[t]]
    BY <1>1, <2>1, Working DEF IInv, JobInv
  <2>4. job' = [job EXCEPT ![s] = k]
    BY <1>3, <2>1, <2>2, <2>3 DEF ToTodo
  <2>5. k = Moved(job[s], pc, job[s].thread, job[s].retry, todo, job[s].saved, job[s].dst, job[s].out)
    BY <2>1, <2>2, <2>3, Assignments
  <2>6. /\ k # Idle /\ k.op = job[s].op /\ k.by = job[s].by /\ k.n = job[s].n /\ k.req = job[s].req
        /\ k.saved = job[s].saved
    BY <1>1, <2>5, JobGoes
  <2>7. ServerMoves(s, k) /\ SavedOk(k)
    BY <1>1, <1>3, <2>1, <2>4, <2>6 DEF ServerMoves, SavedOk, clients
  <2>8. UNCHANGED <<chat, threadOf, unpushed>> /\ UNCHANGED <<uip, mgr, clients>>
    BY <1>3 DEF ConfirmApply, counts
  <2>9. \A v \in Users : \A f : ~Sends(v, f)
    BY <1>1, <2>8, OneSent DEF clients
  <2>10. Serves(s, k)
    BY <1>1, <2>7, <2>8, <2>9, ServesNothing
  <2> QED
    BY <2>8, <2>10, HandlerSyncs
<1> QED
  BY <1>2, <1>3 DEF Confirm

\* A text is refused, before it has been saved.
LEMMA RefuseTextSyncs ==
  ASSUME SInv, IInv', Counted, NEW s \in Servers, RefuseText(s)
  PROVE  SInv'
<1>1. /\ IInv /\ job[s] # Idle /\ job[s].saved = <<>>
  <2>1. IInv /\ job[s] # Idle
    BY AtWork DEF SInv, RefuseText
  <2> QED
    BY <2>1 DEF SInv, SavedInv, SavedOk, RefuseText, At
<1>2. Refuse(s) /\ UNCHANGED <<chat, threadOf, unpushed>>
  BY DEF RefuseText, store, counts
<1> QED
  BY <1>1, <1>2, RefuseServes

-----------------------------------------------------------------------------
(* Saving messages.                                                        *)

\* A text is one message; the one that is saved is its sender's.
LEMMA TextIsOne ==
  ASSUME SInv, NEW s \in Servers, At(s, "save") \/ At(s, "commit"), job[s].op \in {"text", "auth"}
  PROVE  /\ job[s] # Idle /\ IInv /\ job[s].todo # <<>> /\ SavedOk(job[s])
         /\ job[s].op = "text" => /\ job[s].saved = <<>> /\ Tail(job[s].todo) = <<>>
                                  /\ Head(job[s].todo).from = job[s].by
<1>1. IInv /\ job[s] # Idle
  BY AtWork DEF SInv
<1>2. SavedOk(job[s])
  BY <1>1 DEF SInv, SavedInv
<1>3. PICK todo : todo = job[s].todo
  OBVIOUS
<1>4. todo \in Seq(Unsaved) /\ todo # <<>>
  BY <1>1, <1>3, SavingAt
<1>5. Len(todo) <= 1 => Len(todo) = 1 /\ Tail(todo) = <<>> /\ 1 \in DOMAIN todo /\ Head(todo) = todo[1]
  <2>1. Len(todo) \in Nat /\ Len(todo) # 0 /\ DOMAIN todo = 1..Len(todo)
    BY <1>4, LenProperties, EmptySeq
  <2>2. /\ Head(todo) = todo[1] /\ 1 \in DOMAIN todo
        /\ Tail(todo) \in Seq(Unsaved) /\ Len(Tail(todo)) = Len(todo) - 1
    BY <1>4, <2>1, HeadTailProperties
  <2> QED
    BY <2>1, <2>2, EmptySeq
<1>6. job[s].op = "text" => /\ Len(todo) <= 1 /\ job[s].saved = <<>>
                            /\ \A i \in DOMAIN todo : todo[i].from = job[s].by
  BY <1>2, <1>3, <1>4 DEF SavedOk
<1>7. job[s].op = "text" => job[s].saved = <<>> /\ Tail(todo) = <<>> /\ Head(todo).from = job[s].by
  BY <1>5, <1>6
<1> QED
  BY <1>1, <1>2, <1>3, <1>4, <1>7

\* The step to the next message.
LEMMA NextSaveMoves ==
  ASSUME SInv, NEW s \in Servers, At(s, "commit"), job[s].op \in {"text", "auth"},
         NEW saved, NextSave(s, saved), UNCHANGED <<uip, mgr, clients>>,
         job[s].op = "text" => \A i \in DOMAIN saved : saved[i].from = job[s].by
  PROVE  \E k : /\ ServerMoves(s, k) /\ k # Idle /\ SavedOk(k) /\ k.saved = saved
                /\ k.pc \in {"save", "route"} /\ \A v \in Users : \A f : ~Sends(v, f)
<1>1. /\ IInv /\ job[s] # Idle
      /\ job[s].op = "text" => Tail(job[s].todo) = <<>>
  BY TextIsOne
<1>2. PICK todo, pc : todo = Tail(job[s].todo) /\ pc = IF Len(job[s].todo) = 1 THEN "route" ELSE "save"
  OBVIOUS
<1>3. Full(job[s]) /\ job = [t \in Servers |-> job[t]]
  BY <1>1, Working DEF IInv, JobInv
<1>4. PICK k : k = ToNext(job[s], todo, saved, pc)
  OBVIOUS
<1>5. job' = [job EXCEPT ![s] = k]
  BY <1>2, <1>3, <1>4 DEF NextSave, ToNext
<1>6. k = Moved(job[s], pc, job[s].thread, job[s].retry, todo, saved, job[s].dst, job[s].out)
  BY <1>3, <1>4, Assignments
<1>7. /\ k # Idle /\ k.op = job[s].op /\ k.by = job[s].by /\ k.n = job[s].n /\ k.req = job[s].req
      /\ k.pc = pc /\ k.todo = todo /\ k.saved = saved
  BY <1>1, <1>6, JobGoes
<1>8. ServerMoves(s, k)
  BY <1>1, <1>5, <1>7 DEF ServerMoves, clients
<1>9. SavedOk(k)
  <2>1. k.op = "text" => k.todo = <<>>
    BY <1>1, <1>2, <1>7
  <2>2. Len(<<>>) <= 1 /\ DOMAIN <<>> = {}
    OBVIOUS
  <2>3. k.pc \notin {"confirm", "find", "insert", "refuse"}
    BY <1>2, <1>7
  <2> QED
    BY <1>7, <2>1, <2>2, <2>3 DEF SavedOk
<1> QED
  BY <1>1, <1>2, <1>7, <1>8, <1>9, OneSent DEF clients

\* The row whose commit it is.
LEMMA RowIs ==
  ASSUME IInv, NEW s \in Servers, At(s, "commit"), job[s].op \in {"text", "auth"},
         NEW r \in chat, HasKey(r, job[s])
  PROVE  LET j == job[s]
             m == Head(j.todo) IN
         /\ r.id = IdOf(j.thread, m.from, m.cid) /\ r.from = m.from /\ r.cid = m.cid
         /\ Between(r, j.by, j.req.to) /\ r.from # r.to
<1>1. PICK q \in chat :
        LET j == job[s]
            m == Head(j.todo) IN
        /\ HasKey(q, j) /\ q.id = IdOf(j.thread, m.from, m.cid)
        /\ q.from = m.from /\ q.cid = m.cid /\ Between(q, j.by, j.req.to)
  BY RowOf
<1>2. r = q
  BY <1>1 DEF HasKey, SameKey, IInv, StoreInv, ChatInv
<1>3. Row(r)
  BY DEF IInv, StoreInv, ChatInv
<1> QED
  BY <1>1, <1>2, <1>3 DEF Row

\* The row is inserted; nobody sees it yet.
LEMMA SaveMessageSyncs ==
  ASSUME SInv, IInv', Counted, NEW s \in Servers, SaveMessage(s)
  PROVE  SInv'
<1>1. /\ At(s, "save") /\ job[s].op \in {"text", "auth"} /\ unpushed' = unpushed
  BY DEF SaveMessage, counts
<1>2. /\ IInv /\ job[s] # Idle /\ SavedOk(job[s])
  BY <1>1, TextIsOne
<1>3. IsMember(job[s].thread, job[s].by, job[s].req.to)
  BY <1>1, <1>2, SavingAt DEF IsMember
<1>4. PICK m, to : m = Head(job[s].todo) /\ to = Other(s, m.from)
  OBVIOUS
<1>5. /\ InsertMessage(job[s].thread, m.from, to, m.cid) /\ GoTo(s, "commit")
      /\ UNCHANGED <<uip, mgr, clients>>
  BY <1>3, <1>4 DEF SaveMessage
<1>6. \A r \in chat' : r.live => r \in chat
  BY <1>5 DEF InsertMessage
<1>7. threadOf' = threadOf
  BY <1>5 DEF InsertMessage
<1>8. PICK k : k = ToPc(job[s], "commit")
  OBVIOUS
<1>9. Full(job[s]) /\ job = [t \in Servers |-> job[t]]
  BY <1>2, Working DEF IInv, JobInv
<1>10. job' = [job EXCEPT ![s] = k]
  BY <1>5, <1>8, <1>9 DEF GoTo, ToPc
<1>11. PICK pc : pc = "commit"
  OBVIOUS
<1>12. k = Moved(job[s], pc, job[s].thread, job[s].retry, job[s].todo,
                 job[s].saved, job[s].dst, job[s].out)
  BY <1>8, <1>9, <1>11, Assignments
<1>13. /\ k # Idle /\ k.op = job[s].op /\ k.by = job[s].by /\ k.n = job[s].n /\ k.req = job[s].req
       /\ k.pc = pc /\ k.todo = job[s].todo /\ k.saved = job[s].saved
  BY <1>2, <1>12, JobGoes
<1>14. ServerMoves(s, k) /\ SavedOk(k)
  BY <1>2, <1>5, <1>10, <1>11, <1>13 DEF ServerMoves, SavedOk, clients
<1>15. \A v \in Users : \A f : ~Sends(v, f)
  BY <1>2, <1>5, OneSent DEF clients
<1>16. \A u \in Users : \A r : Coming(s, u, r) => Coming(s, u, r)'
  <2>1. job'[s] = k /\ link' = link
    BY <1>2, <1>5, <1>14, MovedAt DEF clients
  <2> QED
    BY <1>1, <1>11, <1>13, <2>1 DEF Coming, HasSaved, WillPush, WillAnswer, At
<1>17. Serves(s, k)
  BY <1>1, <1>5, <1>6, <1>7, <1>14, <1>15, <1>16, ServesStill
<1> QED
  BY <1>1, <1>5, <1>17, HandlerSyncs

\* What a commit makes visible.
LEMMA CommitShows ==
  ASSUME IInv, NEW s \in Servers, At(s, "commit"), job[s].op \in {"text", "auth"},
         NEW thread, NEW from, NEW cid,
         thread = job[s].thread, from = Head(job[s].todo).from, cid = Head(job[s].todo).cid,
         CommitMessage(thread, from, cid), texts' = texts
  PROVE  \A q \in chat' : q.live =>
           \/ q \in chat
           \/ /\ q.id = IdOf(thread, from, cid) /\ q.from = from /\ q.cid = cid
              /\ Between(q, job[s].by, job[s].req.to) /\ q.from # q.to
<1> SUFFICES ASSUME NEW q \in chat', q.live, q \notin chat
             PROVE  /\ q.id = IdOf(thread, from, cid) /\ q.from = from /\ q.cid = cid
                    /\ Between(q, job[s].by, job[s].req.to) /\ q.from # q.to
  OBVIOUS
<1>1. PICK r \in chat : q = IF SameKey(r, thread, from, cid) THEN [r EXCEPT !.live = TRUE] ELSE r
  BY DEF CommitMessage
<1>2. SameKey(r, thread, from, cid) /\ q = [r EXCEPT !.live = TRUE]
  BY <1>1
<1>3. HasKey(r, job[s])
  BY <1>2 DEF HasKey
<1>4. /\ r.id = IdOf(thread, from, cid) /\ r.from = from /\ r.cid = cid
      /\ Between(r, job[s].by, job[s].req.to) /\ r.from # r.to
  BY <1>3, RowIs
<1>5. r \in [id : Nat, thread : Nat, from : Users, to : Users, cid : Cids, live : BOOLEAN]
  BY DEF IInv, StoreInv, ChatInv, Row
<1>6. q.id = r.id /\ q.from = r.from /\ q.cid = r.cid /\ q.to = r.to
  BY <1>2, <1>5
<1> QED
  BY <1>4, <1>6 DEF Between

\* What a handler has saved it still has.
LEMMA MoreSaved ==
  ASSUME IInv, NEW s \in Servers, job[s] # Idle, NEW x,
         NEW saved, saved = job[s].saved \/ saved = Append(job[s].saved, x)
  PROVE  /\ \A i \in DOMAIN job[s].saved : i \in DOMAIN saved /\ saved[i] = job[s].saved[i]
         /\ \A i \in DOMAIN saved : i \in DOMAIN job[s].saved \/ saved[i] = x
         /\ saved = Append(job[s].saved, x) => \E i \in DOMAIN saved : saved[i] = x
<1>1. PICK had : had = job[s].saved
  OBVIOUS
<1>2. had \in Seq(Saved)
  BY <1>1, Working
<1>3. CASE saved = had
  <2>1. had = Append(had, x) => FALSE
    BY <1>2
  <2> QED
    BY <1>1, <1>3, <2>1
<1>4. CASE saved = Append(had, x)
  <2>1. /\ DOMAIN had = 1..Len(had) /\ Len(had) \in Nat /\ DOMAIN saved = 1..(Len(had) + 1)
        /\ saved[Len(had) + 1] = x /\ \A i \in 1..Len(had) : saved[i] = had[i]
    BY <1>2, <1>4
  <2>2. PICK n : n = Len(had)
    OBVIOUS
  <2>3. /\ n + 1 \in 1..(n + 1) /\ 1..n \subseteq 1..(n + 1)
        /\ \A i \in 1..(n + 1) : i \in 1..n \/ i = n + 1
    BY <2>1, <2>2
  <2> QED
    BY <1>1, <2>1, <2>2, <2>3
<1> QED
  BY <1>1, <1>3, <1>4

\* So what it brings is still coming.
LEMMA StillComing ==
  ASSUME IInv, NEW s \in Servers, At(s, "commit"), NEW k, ServerMoves(s, k), k # Idle,
         k.pc \in {"save", "route"}, NEW x,
         k.saved = job[s].saved \/ k.saved = Append(job[s].saved, x), NEW u, NEW r, Coming(s, u, r)
  PROVE  Coming(s, u, r)'
<1>1. job[s] # Idle /\ job'[s] = k /\ link' = link
  BY MovedAt, AtWork DEF ServerMoves
<1>2. \A i \in DOMAIN job[s].saved : i \in DOMAIN k.saved /\ k.saved[i] = job[s].saved[i]
  BY <1>1, MoreSaved
<1>3. HasSaved(k, r)
  BY <1>2 DEF HasSaved, Coming
<1>4. /\ k.op = job[s].op /\ k.by = job[s].by /\ k.req = job[s].req /\ job[s].pc = "commit"
  BY DEF ServerMoves, At
<1> QED
  BY <1>1, <1>3, <1>4 DEF Coming, HasSaved, WillPush, WillAnswer

\* The message is visible from now on, and the handler has it.
LEMMA CommitSyncs ==
  ASSUME SInv, IInv', Counted, NEW s \in Servers, CommitSave(s), job[s].op \in {"text", "auth"}
  PROVE  SInv'
<1>1. PICK thread, from, cid :
        thread = job[s].thread /\ from = Head(job[s].todo).from /\ cid = Head(job[s].todo).cid
  OBVIOUS
<1>2. PICK x, saved : x = [from |-> from, cid |-> cid, id |-> IdOf(thread, from, cid)]
                      /\ saved = Append(job[s].saved, x)
  OBVIOUS
<1>3. /\ At(s, "commit") /\ CommitMessage(thread, from, cid) /\ NextSave(s, saved)
      /\ UNCHANGED <<uip, mgr, clients>> /\ texts' = texts /\ unpushed' = unpushed
  BY <1>1, <1>2 DEF CommitSave, counts
<1>4. /\ IInv /\ job[s] # Idle /\ SavedOk(job[s])
      /\ job[s].op = "text" => from = job[s].by
  BY <1>1, <1>3, TextIsOne
<1>5. /\ \A i \in DOMAIN saved : i \in DOMAIN job[s].saved \/ saved[i] = x
      /\ \A i \in DOMAIN job[s].saved : saved[i] = job[s].saved[i]
      /\ \E i \in DOMAIN saved : saved[i] = x
  BY <1>2, <1>4, MoreSaved
<1>6. ASSUME job[s].op = "text", NEW i \in DOMAIN saved PROVE saved[i].from = job[s].by
  <2>1. CASE saved[i] = x
    BY <1>2, <1>4, <1>6, <2>1
  <2>2. CASE i \in DOMAIN job[s].saved
    BY <1>4, <1>5, <1>6, <2>2 DEF SavedOk
  <2> QED
    BY <1>5, <2>1, <2>2
<1>7. PICK k : /\ ServerMoves(s, k) /\ k # Idle /\ SavedOk(k) /\ k.saved = saved
               /\ k.pc \in {"save", "route"} /\ \A v \in Users : \A f : ~Sends(v, f)
  BY <1>3, <1>6, NextSaveMoves
<1>8. /\ job'[s] = k /\ k.op = job[s].op /\ k.by = job[s].by /\ k.req = job[s].req
  BY <1>4, <1>7, MovedAt DEF ServerMoves
<1>9. ASSUME NEW u \in Users, NEW r \in Owed(u)', r \notin Owed(u)
      PROVE  Coming(s, u, r)'
  <2>1. r \in chat' /\ r.live /\ r \notin chat /\ r.to = u
    BY <1>3, <1>9 DEF Owed
  <2>2. /\ r.id = IdOf(thread, from, cid) /\ r.from = from /\ r.cid = cid
        /\ Between(r, job[s].by, job[s].req.to) /\ r.from # r.to
    BY <1>1, <1>3, <1>4, <2>1, CommitShows
  <2>3. HasSaved(k, r)
    BY <1>2, <1>5, <1>7, <2>2 DEF HasSaved
  <2>4. CASE r.from = job[s].by
    BY <1>7, <1>8, <2>1, <2>2, <2>3, <2>4 DEF Coming, HasSaved, WillPush, Between
  <2>5. CASE r.from # job[s].by
    BY <1>4, <1>7, <1>8, <2>1, <2>2, <2>3, <2>5 DEF Coming, HasSaved, WillAnswer, Between
  <2> QED
    BY <2>4, <2>5
<1>10. \A u \in Users : \A r : Coming(s, u, r) => Coming(s, u, r)'
  BY <1>2, <1>3, <1>4, <1>7, StillComing
<1>11. threadOf' = threadOf
  BY <1>3 DEF CommitMessage
<1>12. Serves(s, k)
  BY <1>3, <1>7, <1>9, <1>10, <1>11, StaysHere DEF Serves
<1> QED
  BY <1>3, <1>12, HandlerSyncs

\* The commit failed, or its answer was lost: then the message is not pushed.
LEMMA SaveFailsSyncs ==
  ASSUME SInv, IInv', Counted, NEW s \in Servers, SaveFails(s), job[s].op \in {"text", "auth"}
  PROVE  SInv'
<1>1. PICK thread, from, cid :
        thread = job[s].thread /\ from = Head(job[s].todo).from /\ cid = Head(job[s].todo).cid
  OBVIOUS
<1>2. /\ At(s, "commit") /\ texts' = texts
      /\ \/ RollbackMessage(thread, from, cid) /\ UNCHANGED unpushed
         \/ /\ CommitMessage(thread, from, cid)
            /\ unpushed' = unpushed \cup {IdOf(thread, from, cid)}
      /\ IF job[s].op = "text" THEN Refuse(s)
         ELSE NextSave(s, job[s].saved) /\ UNCHANGED <<uip, mgr, clients>>
  BY <1>1 DEF SaveFails, Try
<1>3. /\ IInv /\ job[s] # Idle /\ SavedOk(job[s])
      /\ job[s].op = "text" => job[s].saved = <<>>
  BY <1>2, TextIsOne
<1>4. ASSUME NEW u \in Users PROVE Owed(u)' \subseteq Owed(u)
  <2>1. CASE RollbackMessage(thread, from, cid) /\ UNCHANGED unpushed
    BY <2>1 DEF RollbackMessage, Owed
  <2>2. CASE /\ CommitMessage(thread, from, cid)
             /\ unpushed' = unpushed \cup {IdOf(thread, from, cid)}
    <3>1. \A r \in chat' : r.live => r \in chat \/ r.id = IdOf(thread, from, cid)
      BY <1>1, <1>2, <1>3, <2>2, CommitShows
    <3> QED
      BY <2>2, <3>1 DEF Owed
  <2> QED
    BY <1>2, <2>1, <2>2
<1>5. threadOf' = threadOf
  BY <1>2 DEF CommitMessage, RollbackMessage
<1>6. CASE job[s].op = "text"
  <2>1. /\ ServerMoves(s, Idle) /\ UNCHANGED <<uip, mgr>>
        /\ \A v \in Users : \A g : Sends(v, g) => ~g.ok
    BY <1>2, <1>3, <1>6, RefuseMoves
  <2>2. \A u \in Users : \A r : ~Coming(s, u, r)
    BY <1>3, <1>6 DEF Coming, HasSaved
  <2>3. Serves(s, Idle)
    BY <1>4, <1>5, <2>1, <2>2, StaysHere DEF Serves
  <2> QED
    BY <1>6, <2>1, <2>3, HandlerSyncs
<1>7. CASE job[s].op # "text"
  <2>1. PICK saved : saved = job[s].saved
    OBVIOUS
  <2>2. NextSave(s, saved) /\ UNCHANGED <<uip, mgr, clients>>
    BY <1>2, <1>7, <2>1
  <2>3. PICK k : /\ ServerMoves(s, k) /\ k # Idle /\ SavedOk(k) /\ k.saved = saved
                 /\ k.pc \in {"save", "route"} /\ \A v \in Users : \A f : ~Sends(v, f)
    BY <1>2, <1>7, <2>2, NextSaveMoves
  <2>4. \A u \in Users : \A r : Coming(s, u, r) => Coming(s, u, r)'
    BY <1>2, <1>3, <2>1, <2>3, StillComing
  <2>5. Serves(s, k)
    BY <1>4, <1>5, <2>2, <2>3, <2>4, StaysHere DEF Serves
  <2> QED
    BY <1>7, <2>2, <2>5, HandlerSyncs
<1> QED
  BY <1>6, <1>7

-----------------------------------------------------------------------------
(* The push and the answer.                                                *)

\* What has been saved is in what is sent.
LEMMA ShownSaved ==
  ASSUME NEW s, NEW r, HasSaved(job[s], r), r.id > 0, NEW w
  PROVE  Shows(Shown(s, w), r.cid, r.id)
<1>1. PICK i \in DOMAIN job[s].saved : job[s].saved[i] = [from |-> r.from, cid |-> r.cid, id |-> r.id]
  BY DEF HasSaved
<1>2. i \in DOMAIN Shown(s, w) /\ Shown(s, w)[i].cid = r.cid /\ Shown(s, w)[i].id = r.id
  BY <1>1 DEF Shown
<1> QED
  BY <1>2 DEF Shows

\* A user to whom something is owed is not its sender.
LEMMA OwedFits ==
  ASSUME IInv, NEW u, NEW r \in Owed(u)
  PROVE  r.id > 0 /\ r.from # u /\ r.from \in Users /\ r.thread # 0
<1>1. Row(r) /\ r.to = u /\ lastId \in Nat
  BY DEF IInv, StoreInv, ChatInv, Owed
<1>2. r.id \in 1..lastId => r.id > 0
  BY <1>1
<1> QED
  BY <1>1, <1>2 DEF Row

\* A user whose login has been answered and whom Redis leads to is found.
LEMMA ReadyIsFound ==
  ASSUME SInv, NEW u \in Users, Here(u)
  PROVE  /\ uip[u].srv = link[u].srv /\ link[u].srv \in Servers /\ link[u].n # 0
         /\ mgr[link[u].srv][u] = link[u].n /\ Open(u, link[u].srv, link[u].n)
<1>1. SessionInv /\ LocationOf(u)
  BY DEF SInv, IInv, LocationInv
<1>2. /\ uip[u].srv = link[u].srv /\ phase[u] = "ready"
      /\ mgr[link[u].srv][u] = link[u].n /\ link[u].n # 0
  BY <1>1 DEF LocationOf, Settled, Here, Located
<1>3. link[u] \in Links /\ link[u].srv # NoServer
  BY <1>1, <1>2 DEF SessionInv
<1> QED
  BY <1>2, <1>3 DEF Links, Open

\* A message of the one who is served is among those that are given up.
LEMMA OwnIsGivenUp ==
  ASSUME NEW s, NEW r, HasSaved(job[s], r), r.from = job[s].by
  PROVE  r.id \in Ids(s)
<1>1. PICK i \in DOMAIN job[s].saved : job[s].saved[i] = [from |-> r.from, cid |-> r.cid, id |-> r.id]
  BY DEF HasSaved
<1>2. job[s].saved[i].from = job[s].by /\ job[s].saved[i].id = r.id
  BY <1>1
<1> QED
  BY <1>1, <1>2 DEF Ids

\* When the messages of the one who is served are given up and the handler
\* goes on to its answer, what it will answer with is still coming.
LEMMA GivesUp ==
  ASSUME SInv, IInv', Counted, NEW s \in Servers, At(s, "route") \/ At(s, "push"), GoTo(s, "answer"),
         job[s].op \in {"text", "auth", "apply"}, unpushed' = unpushed \cup Ids(s),
         UNCHANGED <<chat, threadOf>>, UNCHANGED <<uip, mgr, clients>>
  PROVE  SInv'
<1>1. IInv /\ job[s] # Idle /\ SavedOk(job[s])
  BY DEF SInv, SavedInv, At, Idle
<1>2. Full(job[s]) /\ job = [t \in Servers |-> job[t]]
  BY <1>1, Working DEF IInv, JobInv
<1>3. PICK pc : pc = "answer"
  OBVIOUS
<1>4. PICK k : k = ToPc(job[s], pc)
  OBVIOUS
<1>5. job' = [job EXCEPT ![s] = k]
  BY <1>2, <1>3, <1>4 DEF GoTo, ToPc
<1>6. k = Moved(job[s], pc, job[s].thread, job[s].retry, job[s].todo, job[s].saved, job[s].dst, job[s].out)
  BY <1>2, <1>4, Assignments
<1>7. /\ k # Idle /\ k.op = job[s].op /\ k.by = job[s].by /\ k.n = job[s].n /\ k.req = job[s].req
      /\ k.pc = pc /\ k.todo = job[s].todo /\ k.saved = job[s].saved
  BY <1>1, <1>6, JobGoes
<1>8. ServerMoves(s, k) /\ SavedOk(k)
  BY <1>1, <1>3, <1>5, <1>7 DEF ServerMoves, SavedOk, clients
<1>9. \A v \in Users : \A f : ~Sends(v, f)
  BY <1>1, OneSent DEF clients
<1>10. ASSUME NEW u \in Users, NEW r \in Owed(u)', Coming(s, u, r)
       PROVE  Coming(s, u, r)'
  <2>1. job'[s] = k
    BY <1>1, <1>8, MovedAt
  <2>2. CASE WillAnswer(job[s], u, r)
    BY <1>3, <1>7, <1>10, <2>1, <2>2 DEF Coming, HasSaved, WillAnswer
  <2>3. CASE WillPush(job[s], u, r)
    BY <1>10, <2>3, OwnIsGivenUp DEF Coming, WillPush, Owed
  <2> QED
    BY <1>10, <2>2, <2>3 DEF Coming
<1>11. Serves(s, k)
  BY <1>1, <1>8, <1>9, <1>10, ServesStill
<1> QED
  BY <1>11, HandlerSyncs

\* The other one is looked for; what is not pushed is given up.
LEMMA RouteSyncs ==
  ASSUME SInv, IInv', Counted, NEW s \in Servers, Route(s)
  PROVE  SInv'
<1>1. /\ At(s, "route") /\ IInv /\ UNCHANGED <<chat, threadOf>> /\ UNCHANGED <<uip, mgr, clients>>
  BY DEF Route, SInv, store
<1>2. job[s] # Idle /\ job[s].op \in {"text", "auth", "apply"}
  <2>1. PICK pc \in {"route", "push", "answer"} : pc = "route"
    OBVIOUS
  <2>2. At(s, pc)
    BY <1>1, <2>1
  <2>3. LET i == job[s] IN
         /\ i # Idle /\ i.op \in {"text", "auth", "apply", "create"} /\ (pc # "answer" => i.op # "create")
    BY <1>1, <2>2, PushingAt
  <2> QED
    BY <2>1, <2>3
<1>3. \A v \in Users : \A f : ~Sends(v, f)
  BY <1>1, OneSent DEF clients
<1>4. CASE job[s].op = "text" /\ job' = [job EXCEPT ![s] = Idle] /\ unpushed' = unpushed \cup Ids(s)
  <2>1. ServerMoves(s, Idle)
    BY <1>1, <1>2, <1>4 DEF ServerMoves, clients
  <2>2. ASSUME NEW u \in Users, NEW r \in Owed(u)', Coming(s, u, r) PROVE FALSE
    <3>1. HasSaved(job[s], r) /\ SavedOk(job[s])
      BY <1>2, <2>2 DEF Coming, SInv, SavedInv
    <3>2. r.from = job[s].by
      BY <1>4, <3>1 DEF HasSaved, SavedOk
    <3>3. r.id \in Ids(s)
      BY <3>1, <3>2, OwnIsGivenUp
    <3> QED
      BY <1>4, <2>2, <3>3 DEF Owed
  <2>3. Serves(s, Idle)
    BY <1>1, <1>3, <1>4, <2>1, <2>2, ServesStill
  <2> QED
    BY <1>1, <1>2, <2>3, HandlerSyncs
<1>5. CASE /\ job' = [job EXCEPT ![s].dst = uip[job[s].req.to].srv, ![s].pc =
                         IF uip[job[s].req.to].srv = NoServer THEN "answer" ELSE "push"]
           /\ UNCHANGED unpushed
  <2>1. PICK dst, pc : /\ dst = uip[job[s].req.to].srv
                       /\ pc = IF uip[job[s].req.to].srv = NoServer THEN "answer" ELSE "push"
    OBVIOUS
  <2>2. Full(job[s]) /\ job = [t \in Servers |-> job[t]]
    BY <1>1, <1>2, Working DEF IInv, JobInv
  <2>3. PICK k : k = ToDst(job[s], dst, pc)
    OBVIOUS
  <2>4. job' = [job EXCEPT ![s] = k]
    BY <1>5, <2>1, <2>2, <2>3 DEF ToDst
  <2>5. k = Moved(job[s], pc, job[s].thread, job[s].retry, job[s].todo, job[s].saved, dst, job[s].out)
    BY <2>2, <2>3, Assignments
  <2>6. /\ k # Idle /\ k.op = job[s].op /\ k.by = job[s].by /\ k.n = job[s].n /\ k.req = job[s].req
        /\ k.pc = pc /\ k.todo = job[s].todo /\ k.saved = job[s].saved /\ k.dst = dst
    BY <1>1, <1>2, <2>5, JobGoes
  <2>7. ServerMoves(s, k)
    BY <1>1, <1>2, <2>4, <2>6 DEF ServerMoves, clients
  <2>8. SavedOk(job[s])
    BY <1>2 DEF SInv, SavedInv
  <2>9. SavedOk(k)
    BY <2>1, <2>6, <2>8 DEF SavedOk
  <2>10. ASSUME NEW u \in Users, Here(u), NEW r, Coming(s, u, r)
         PROVE  Coming(s, u, r)'
    <3>1. job'[s] = k /\ link' = link
      BY <1>1, <2>7, MovedAt DEF clients
    <3>2. HasSaved(k, r)
      BY <2>6, <2>10 DEF Coming, HasSaved
    <3>3. CASE WillAnswer(job[s], u, r)
      BY <2>1, <2>6, <2>10, <3>1, <3>2, <3>3 DEF Coming, HasSaved, WillAnswer
    <3>4. CASE WillPush(job[s], u, r)
      <4>1. uip[u].srv = link[u].srv /\ link[u].srv # NoServer
        BY <2>10, ReadyIsFound, MessagingAssumption
      <4>2. job[s].req.to = u
        BY <3>4 DEF WillPush
      <4>3. pc = "push" /\ dst = link[u].srv
        BY <2>1, <4>1, <4>2
      <4> QED
        BY <2>6, <2>10, <3>1, <3>2, <3>4, <4>3 DEF Coming, HasSaved, WillPush
    <3> QED
      BY <2>10, <3>3, <3>4 DEF Coming
  <2>11. Serves(s, k)
    BY <1>1, <1>3, <1>5, <2>7, <2>9, <2>10, ServesStill
  <2> QED
    BY <1>1, <1>2, <2>11, HandlerSyncs
<1>6. CASE GoTo(s, "answer") /\ unpushed' = unpushed \cup Ids(s)
  BY <1>1, <1>2, <1>6, GivesUp
<1> QED
  BY <1>4, <1>5, <1>6 DEF Route, counts

\* What a push brings.
LEMMA NoticeCarries ==
  ASSUME NEW s, NEW u, NEW r, job[s].op \in {"text", "auth"}, HasSaved(job[s], r), r.id > 0,
         WillPush(job[s], u, r)
  PROVE  Carries(Notice(s), r)
<1>1. Shows(Shown(s, job[s].req.to), r.cid, r.id)
  BY ShownSaved
<1>2. job[s].by = r.from
  BY DEF WillPush
<1>3. CASE job[s].op = "text"
  <2>1. Notice(s) = NotifyTextChatMsg(s)
    BY <1>3 DEF Notice
  <2>2. /\ NotifyTextChatMsg(s).op = "notifyText" /\ NotifyTextChatMsg(s).peer = job[s].by
        /\ NotifyTextChatMsg(s).msgs = Shown(s, job[s].req.to)
    BY DEF NotifyTextChatMsg
  <2> QED
    BY <1>1, <1>2, <2>1, <2>2 DEF Carries
<1>4. CASE job[s].op = "auth"
  <2>1. Notice(s) = NotifyAuthFriend(s)
    BY <1>4 DEF Notice
  <2>2. /\ NotifyAuthFriend(s).op = "notifyAuth" /\ NotifyAuthFriend(s).peer = job[s].by
        /\ NotifyAuthFriend(s).msgs = Shown(s, job[s].req.to)
    BY DEF NotifyAuthFriend
  <2> QED
    BY <1>1, <1>2, <2>1, <2>2 DEF Carries
<1> QED
  BY <1>3, <1>4

\* The push reaches the user, or is given up.
LEMMA PushedSyncs ==
  ASSUME SInv, IInv', Counted, NEW s \in Servers, At(s, "push"), GoTo(s, "answer"),
         UNCHANGED <<store, uip, mgr, link, up, phase, cache, synced>>,
         \/ down' = down /\ unpushed' = unpushed \cup Ids(s)
         \/ Notify(job[s].dst, job[s].req.to, Notice(s)) /\ UNCHANGED unpushed
  PROVE  SInv'
<1>1. IInv /\ UNCHANGED <<chat, threadOf>> /\ unpushed \subseteq unpushed'
  BY DEF SInv, store
<1>2. PICK v : v = job[s].req.to
  OBVIOUS
<1>3. job[s] # Idle /\ job[s].op \in {"text", "auth", "apply"} /\ v \in Users
  <2>1. PICK pc \in {"route", "push", "answer"} : pc = "push"
    OBVIOUS
  <2>2. At(s, pc)
    BY <2>1
  <2>3. LET i == job[s] IN
         /\ i # Idle /\ i.op \in {"text", "auth", "apply", "create"} /\ (pc # "answer" => i.op # "create")
         /\ i.req.to \in Users
    BY <1>1, <2>2, PushingAt
  <2> QED
    BY <1>2, <2>1, <2>3
<1>4. Notice(s).op \in PushOps
  BY <1>3 DEF Notice, NotifyTextChatMsg, NotifyAuthFriend, NotifyAddFriend, PushOps
<1>5. down' = down \/ Sends(v, Notice(s))
  BY <1>2 DEF Notify, Sent, Sends
<1>6. Full(job[s]) /\ job = [t \in Servers |-> job[t]]
  BY <1>1, <1>3, Working DEF IInv, JobInv
<1>7. PICK k, pc : k = ToPc(job[s], pc) /\ pc = "answer"
  OBVIOUS
<1>8. job' = [job EXCEPT ![s] = k]
  BY <1>6, <1>7 DEF GoTo, ToPc
<1>9. k = Moved(job[s], pc, job[s].thread, job[s].retry, job[s].todo,
                 job[s].saved, job[s].dst, job[s].out)
  BY <1>6, <1>7, Assignments
<1>10. /\ k # Idle /\ k.op = job[s].op /\ k.by = job[s].by /\ k.n = job[s].n /\ k.req = job[s].req
       /\ k.pc = pc /\ k.todo = job[s].todo /\ k.saved = job[s].saved
  BY <1>1, <1>3, <1>9, JobGoes
<1>11. ServerMoves(s, k)
  BY <1>3, <1>4, <1>5, <1>8, <1>10 DEF ServerMoves
<1>12. SavedOk(job[s])
  BY <1>3 DEF SInv, SavedInv
<1>13. SavedOk(k)
  BY <1>7, <1>10, <1>12 DEF SavedOk
<1>14. \A w \in Users : \A f : Sends(w, f) => f = Notice(s)
  BY <1>1, <1>3, <1>5, OneSent
<1>15. \A w \in Users : \A f : Sends(w, f) => f.op # "load"
  BY <1>4, <1>14 DEF PushOps
<1>16. ASSUME NEW u \in Users, NEW r \in Owed(u)', Here(u), Coming(s, u, r)
       PROVE  Coming(s, u, r)' \/ \E f : Sends(u, f) /\ Carries(f, r)
  <2>1. job'[s] = k /\ link' = link
    BY <1>1, <1>11, MovedAt
  <2>2. HasSaved(k, r) /\ HasSaved(job[s], r) /\ job[s].op \in {"text", "auth"}
    BY <1>10, <1>16 DEF Coming, HasSaved
  <2>3. CASE WillAnswer(job[s], u, r)
    BY <1>7, <1>10, <1>16, <2>1, <2>2, <2>3 DEF Coming, HasSaved, WillAnswer
  <2>4. CASE WillPush(job[s], u, r)
    <3>1. v = u /\ job[s].dst = link[u].srv
      BY <1>2, <2>4 DEF WillPush, At
    <3>2. r \in Owed(u)
      BY <1>1, <1>16 DEF Owed
    <3>3. Notify(job[s].dst, job[s].req.to, Notice(s))
      <4>1. r.id \in Ids(s)
        BY <2>2, <2>4, OwnIsGivenUp DEF WillPush
      <4> QED
        BY <1>16, <4>1 DEF Owed
    <3>4. /\ mgr[link[u].srv][u] = link[u].n /\ link[u].n # 0 /\ Open(u, link[u].srv, link[u].n)
      BY <1>16, ReadyIsFound
    <3>5. Sends(u, Notice(s))
      BY <1>2, <3>1, <3>3, <3>4 DEF Notify, Sent, Sends
    <3>6. r.id > 0
      BY <1>1, <3>2, OwedFits
    <3>7. Carries(Notice(s), r)
      BY <2>2, <2>4, <3>6, NoticeCarries
    <3> QED
      BY <3>5, <3>7
  <2> QED
    BY <1>16, <2>3, <2>4 DEF Coming
<1>17. Serves(s, k)
  BY <1>1, <1>11, <1>13, <1>15, <1>16, ServesStill
<1> QED
  BY <1>3, <1>17, HandlerSyncs

\* Each kind of push.
LEMMA PushSyncs ==
  ASSUME SInv, IInv', Counted, NEW s \in Servers, Push(s) \/ PushFails(s) \/ NoticeFails(s)
  PROVE  SInv'
<1>1. CASE Push(s) \/ PushFails(s)
  <2>1. /\ At(s, "push") /\ GoTo(s, "answer") /\ UNCHANGED <<store, uip, mgr, link, up, phase, cache, synced>>
        /\ \/ down' = down /\ unpushed' = unpushed \cup Ids(s)
           \/ Notify(job[s].dst, job[s].req.to, Notice(s)) /\ UNCHANGED unpushed
    BY <1>1 DEF Push, PushFails, counts
  <2> QED
    BY <2>1, PushedSyncs
<1>2. CASE NoticeFails(s)
  <2>1. /\ At(s, "push") /\ GoTo(s, "answer") /\ unpushed' = unpushed \cup Ids(s) /\ job[s].op = "auth"
        /\ UNCHANGED <<chat, threadOf>> /\ UNCHANGED <<uip, mgr, clients>>
    BY <1>2 DEF NoticeFails, store
  <2> QED
    BY <2>1, GivesUp
<1> QED
  BY <1>1, <1>2

\* The answer, which is the approver's only push.
LEMMA AnswerSyncs ==
  ASSUME SInv, IInv', Counted, NEW s \in Servers, Answer(s)
  PROVE  SInv'
<1>1. PICK u, v, theirs, f :
        /\ u = job[s].by /\ v = job[s].req.to
        /\ theirs = {job[s].saved[i].id : i \in {k \in DOMAIN job[s].saved : job[s].saved[k].from # u}}
        /\ f = [op |-> job[s].op, ok |-> job[s].op = "create" => job[s].thread # 0, peer |-> v,
                thread |-> job[s].thread, msgs |-> Shown(s, u)]
  OBVIOUS
<1>2. /\ At(s, "answer") /\ Finish(s, f) /\ UNCHANGED <<chat, threadOf>>
      /\ unpushed' = IF job[s].op = "auth" /\ ~Open(u, s, job[s].n) THEN unpushed \cup theirs ELSE unpushed
  BY <1>1 DEF Answer, store
<1>3. IInv /\ job[s] # Idle /\ job[s].op \in {"text", "auth", "apply", "create"}
  <2>1. PICK pc \in {"route", "push", "answer"} : pc = "answer"
    OBVIOUS
  <2>2. At(s, pc) /\ IInv
    BY <1>2, <2>1 DEF SInv
  <2>3. LET i == job[s] IN i # Idle /\ i.op \in {"text", "auth", "apply", "create"}
    BY <2>2, PushingAt
  <2> QED
    BY <2>2, <2>3
<1>4. /\ f.op = job[s].op /\ f.peer = v /\ f.msgs = Shown(s, u)
      /\ job[s].op = "auth" => f.ok
  BY <1>1
<1>5. /\ ServerMoves(s, Idle) /\ UNCHANGED <<uip, mgr>>
      /\ \A w \in Users : \A g : Sends(w, g) => g = f /\ w = job[s].by /\ Mine(s, w)
      /\ Open(job[s].by, s, job[s].n) /\ job[s].op # "apply" => Sends(job[s].by, f)
  BY <1>2, <1>3, <1>4, FinishMoves
<1>6. unpushed \subseteq unpushed'
  BY <1>2
<1>7. \A w \in Users : \A g : Sends(w, g) => g.op # "load"
  BY <1>3, <1>4, <1>5
<1>8. ASSUME NEW w \in Users, NEW r \in Owed(w)', Here(w), Coming(s, w, r)
      PROVE  \E g : Sends(w, g) /\ Carries(g, r)
  <2>1. r \in Owed(w)
    BY <1>2, <1>6, <1>8 DEF Owed
  <2>2. /\ HasSaved(job[s], r) /\ job[s].op = "auth" /\ w = u /\ v = r.from
    BY <1>1, <1>2, <1>8 DEF Coming, WillPush, WillAnswer, At
  <2>3. r.id > 0 /\ r.from # w
    BY <1>3, <2>1, OwedFits
  <2>4. CASE Open(u, s, job[s].n)
    <3>1. Sends(u, f)
      BY <1>1, <1>5, <2>2, <2>4
    <3>2. Shows(f.msgs, r.cid, r.id)
      BY <1>4, <2>2, <2>3, ShownSaved
    <3>3. Carries(f, r)
      BY <1>4, <2>2, <3>2 DEF Carries
    <3> QED
      BY <2>2, <3>1, <3>3
  <2>5. CASE ~Open(u, s, job[s].n)
    <3>1. r.id \in theirs
      BY <1>1, <2>2, <2>3 DEF HasSaved
    <3> QED
      BY <1>2, <1>8, <2>2, <2>5, <3>1 DEF Owed
  <2> QED
    BY <2>4, <2>5
<1>9. Serves(s, Idle)
  BY <1>2, <1>5, <1>6, <1>7, <1>8, ServesStill
<1> QED
  BY <1>3, <1>5, <1>9, HandlerSyncs

-----------------------------------------------------------------------------
(* Pages.                                                                  *)

\* A page of conversations.
LEMMA LoadThreadsSyncs ==
  ASSUME SInv, IInv', Counted, NEW s \in Servers, LoadThreads(s)
  PROVE  SInv'
<1>1. PICK got : got = ChatThreads(job[s].by, job[s].req.after)
  OBVIOUS
<1>2. PICK f : f = [op |-> "threads", ok |-> TRUE, threads |-> got.page, more |-> got.more]
  OBVIOUS
<1>3. PICK ok \in BOOLEAN : Works(ok) /\ IF ok THEN Finish(s, f) ELSE Refuse(s)
  BY <1>1, <1>2 DEF LoadThreads
<1>4. /\ IInv /\ job[s] # Idle /\ job[s].op = "threads" /\ UNCHANGED <<chat, threadOf, unpushed>>
  BY <1>3, AtWork DEF LoadThreads, SInv, store, Works
<1>5. CASE Refuse(s)
  BY <1>4, <1>5, RefuseServes
<1>6. CASE Finish(s, f)
  <2>1. f.op = "threads"
    BY <1>2
  <2>2. /\ ServerMoves(s, Idle) /\ UNCHANGED <<uip, mgr>> /\ \A w \in Users : \A g : Sends(w, g) => g = f
    BY <1>4, <1>6, <2>1, FinishMoves
  <2>3. \A w \in Users : \A g : Sends(w, g) => g.op # "load"
    BY <2>1, <2>2
  <2>4. Serves(s, Idle)
    BY <1>4, <2>2, <2>3, ServesNothing
  <2> QED
    BY <1>4, <2>2, <2>4, HandlerSyncs
<1> QED
  BY <1>3, <1>5, <1>6

\* A page of messages has every message above the id it was asked from, up to
\* its last one when more follow.
LEMMA PageHasAll ==
  ASSUME StoreInv, StoreAssumption, NEW thread \in Nat, NEW after \in Nat, NEW w, NEW msgs,
         msgs = PageShown(ChatMessages(thread, after).page, w),
         NEW r \in chat, r.live, r.thread = thread, r.id > after,
         ChatMessages(thread, after).more => r.id <= Last(msgs).id
  PROVE  Shows(msgs, r.cid, r.id)
<1> DEFINE later == {x \in chat : x.live /\ x.thread = thread /\ x.id > after}
           all == {x.id : x \in later}
           ids == Page(all)
           row(id) == CHOOSE x \in later : x.id = id
           got == ChatMessages(thread, after)
<1>1. /\ IsFiniteSet(chat) /\ \A x \in chat : x.id \in Nat /\ x.id > 0
      /\ \A x, y \in chat : x.id = y.id => x = y
  <2>1. /\ IsFiniteSet(chat) /\ \A x \in chat : Row(x) /\ x.id \in 1..lastId
        /\ \A x, y \in chat : x.id = y.id => x = y
    BY DEF StoreInv, ChatInv, Row
  <2>2. lastId \in Nat
    BY DEF StoreInv, ChatInv
  <2> QED
    BY <2>1, <2>2
<1>2. IsFiniteSet(later)
  BY <1>1, FS_Subset
<1>3. all \in SUBSET Nat /\ r \in later /\ r.id \in all
  BY <1>1
<1>4. IsFiniteSet(all) /\ Cardinality(all) <= Cardinality(later)
  <2> DEFINE f == [x \in later |-> x.id]
  <2>1. all = {f[x] : x \in later}
    OBVIOUS
  <2> HIDE DEF f, later, all
  <2>2. IsFiniteSet({f[x] : x \in later}) /\ Cardinality({f[x] : x \in later}) <= Cardinality(later)
    BY <1>2, ValuesAreFinite
  <2> QED
    BY <2>1, <2>2
<1>5. ASSUME NEW id \in all
      PROVE  row(id) \in later /\ row(id).id = id
  <2>1. \E x \in later : x.id = id
    OBVIOUS
  <2> QED
    BY <2>1
<1>6. row(r.id) = r
  <2>1. row(r.id) \in later /\ row(r.id).id = r.id
    BY <1>3, <1>5
  <2> QED
    BY <1>1, <2>1
<1>7. got = [page |-> [i \in DOMAIN ids |-> row(ids[i])], more |-> Cardinality(later) > PageSize]
  BY DEF ChatMessages
<1> HIDE DEF row, got
<1>8. ids \in Seq(all)
  <2> HIDE DEF all
  <2> QED
    BY <1>3, <1>4, PageLists
<1> HIDE DEF ids
<1>9. \A i \in DOMAIN ids : ids[i] \in all
  BY <1>8, ElementOfSeq, LenProperties
<1>10. msgs = [i \in DOMAIN ids |-> msgs[i]]
       /\ \A i \in DOMAIN ids : msgs[i].id = row(ids[i]).id /\ msgs[i].cid = row(ids[i]).cid
  BY <1>7 DEF PageShown, got
<1>11. /\ DOMAIN msgs = DOMAIN ids
       /\ \A i \in DOMAIN ids : msgs[i].id = ids[i] /\ msgs[i].cid = row(ids[i]).cid
  BY <1>5, <1>9, <1>10
<1>12. msgs \in Seq({msgs[i] : i \in DOMAIN ids})
  BY <1>8, <1>10, Replaced
<1>13. Len(msgs) = Len(ids) /\ Len(ids) \in Nat /\ DOMAIN ids = 1..Len(ids)
  BY <1>8, <1>11, <1>12, LenProperties
<1>14. ASSUME Cardinality(all) > PageSize PROVE r.id <= ids[Len(ids)]
  <2>1. PICK big \in BOOLEAN : big <=> Cardinality(later) > PageSize
    OBVIOUS
  <2>2. big
    <3>1. Cardinality(all) \in Nat /\ Cardinality(later) \in Nat /\ PageSize \in Nat
      BY <1>2, <1>4, FS_CardinalityType DEF StoreAssumption
    <3>2. PICK a, b : a = Cardinality(all) /\ b = Cardinality(later)
      OBVIOUS
    <3> QED
      BY <1>4, <1>14, <2>1, <3>1, <3>2
  <2>3. got.more
    BY <1>7, <2>1, <2>2
  <2>4. r.id <= Last(msgs).id
    BY <2>3 DEF got
  <2>5. Len(ids) \in DOMAIN ids
    <3>1. PICK n : n = Len(ids)
      OBVIOUS
    <3>2. n # 0
      <4>1. DOMAIN Page(all) # {}
        <5> HIDE DEF later
        <5>1. Cardinality(all) \in Nat /\ PageSize \in Nat /\ PageSize > 0
          BY <1>4, FS_CardinalityType DEF StoreAssumption
        <5>2. 1 \in DOMAIN Page(all)
          BY <1>14, <5>1 DEF Page
        <5> QED
          BY <5>2
      <4> QED
        BY <1>13, <3>1, <4>1 DEF ids
    <3> QED
      BY <1>13, <3>1, <3>2
  <2>6. Last(msgs) = msgs[Len(ids)]
    BY <1>13 DEF Last
  <2> QED
    BY <1>11, <2>4, <2>5, <2>6
<1>15. PICK i \in DOMAIN ids : ids[i] = r.id
  <2> HIDE DEF all
  <2> QED
    BY <1>3, <1>4, <1>14, PageIsComplete DEF ids
<1>16. i \in DOMAIN msgs /\ msgs[i].id = r.id /\ msgs[i].cid = r.cid
  BY <1>6, <1>11, <1>15
<1> QED
  BY <1>1, <1>16 DEF Shows

\* A page of messages: it has all above the id it was asked from, and below
\* that id everything was covered when it was asked, and is.
LEMMA LoadMessagesSyncs ==
  ASSUME SInv, IInv', Counted, StoreAssumption, NEW s \in Servers, LoadMessages(s)
  PROVE  SInv'
<1>1. PICK u, thread, after : u = job[s].by /\ thread = job[s].req.thread /\ after = job[s].req.after
  OBVIOUS
<1>2. /\ job[s].op = "load" /\ UNCHANGED <<chat, threadOf, unpushed>> /\ At(s, "read")
      /\ IInv /\ StoreInv
  BY DEF LoadMessages, SInv, IInv, store, Works
<1>3. job[s] # Idle
  BY <1>2, AtWork
<1>4. u \in Users /\ after \in Nat /\ thread \in Nat \ {0}
  <2>1. u \in Users /\ job[s].op = job[s].req.op /\ Asks(u, FriendsOf(u), ThreadsOf(u), texts, job[s].req)
    BY <1>1, <1>2, <1>3, Working
  <2> QED
    BY <1>1, <1>2, <2>1 DEF Asks
<1> DEFINE got == ChatMessages(thread, after)
<1>5. PICK msgs, more, f : /\ msgs = PageShown(got.page, u) /\ more = got.more
                           /\ f = [op |-> "load", ok |-> TRUE, thread |-> thread, more |-> more,
                                   msgs |-> msgs]
  OBVIOUS
<1>6. Finish(s, f) \/ Refuse(s)
  BY <1>1, <1>5 DEF LoadMessages, PageShown
<1>7. CASE Refuse(s)
  BY <1>2, <1>3, <1>7, RefuseServes
<1>8. CASE Finish(s, f)
  <2>1. f.op = "load" /\ f.thread = thread /\ f.more = more /\ f.msgs = msgs
    BY <1>5
  <2>2. /\ ServerMoves(s, Idle) /\ UNCHANGED <<uip, mgr>>
        /\ \A w \in Users : \A g : Sends(w, g) => g = f /\ w = u /\ Mine(s, w)
    BY <1>1, <1>2, <1>3, <1>8, <2>1, FinishMoves
  <2>3. ASSUME NEW v \in Users, Here(v), NEW g, Sends(v, g),
               NEW r \in Owed(v)', PageOf(g, r)
        PROVE  Shows(g.msgs, r.cid, r.id) \/ Covered(v, r)
    <3>1. g = f /\ v = u /\ Mine(s, u)
      BY <2>2, <2>3
    <3>2. r \in Owed(u)
      BY <1>2, <3>1 DEF Owed
    <3>3. r \in chat /\ r.live /\ r.thread = thread /\ (more => r.id <= Last(msgs).id)
      BY <2>1, <2>3, <3>1, <3>2 DEF PageOf, Owed
    <3>4. UpTo(u, thread, after)
      BY <1>1, <1>2, <1>4, <2>3, <3>1 DEF SInv, SyncInv, SyncOf
    <3>5. r.id \in Nat /\ r.id > 0
      <4>1. lastId \in Nat /\ Row(r)
        BY <1>2, <3>3 DEF StoreInv, ChatInv
      <4>2. r.id \in 1..lastId
        BY <4>1 DEF Row
      <4> QED
        BY <4>1, <4>2
    <3>6. CASE r.id > after
      <4>1. Shows(msgs, r.cid, r.id)
        BY <1>2, <1>4, <1>5, <3>3, <3>6, PageHasAll
      <4> QED
        BY <2>1, <3>1, <4>1
    <3>7. CASE r.id <= after
      <4>1. after > 0
        BY <1>4, <3>5, <3>7
      <4>2. Covered(u, r)
        BY <3>2, <3>3, <3>4, <3>7, <4>1 DEF UpTo
      <4> QED
        BY <3>1, <4>2
    <3> QED
      BY <1>4, <3>5, <3>6, <3>7
  <2>4. \A v \in Users : \A r : ~Coming(s, v, r)
    BY <1>2 DEF Coming
  <2>5. \A v \in Users : Owed(v)' = Owed(v)
    BY <1>2 DEF Owed
  <2>6. Serves(s, Idle)
    BY <1>2, <2>2, <2>3, <2>4, <2>5, StaysHere DEF Serves
  <2> QED
    BY <1>2, <1>3, <2>2, <2>6, HandlerSyncs
<1> QED
  BY <1>6, <1>7, <1>8

-----------------------------------------------------------------------------
(* The next frame of a connection.                                         *)

\* A handler begins before it locks, and with nothing saved.
LEMMA Begins ==
  ASSUME IInv, NEW s \in Servers, NEW u \in Users, DealMsg(s, u)
  PROVE  LET k == JobFor(u, link[u].n, Head(up[u])) IN
         /\ job[s] = Idle /\ job'[s] = k /\ \A t \in Servers : t # s => job'[t] = job[t]
         /\ k # Idle /\ k.by = u /\ k.n = link[u].n /\ k.req = Head(up[u]) /\ k.op = Head(up[u]).op
         /\ k.pc \notin {"bind", "greet"} /\ k.saved = <<>> /\ SavedOk(k)
<1>1. PICK n, req, k : n = link[u].n /\ req = Head(up[u]) /\ k = JobFor(u, n, req)
  OBVIOUS
<1>2. /\ At(s, "idle") /\ job' = [job EXCEPT ![s] = k] /\ up[u] # <<>>
  BY <1>1 DEF DealMsg, JobFor, FirstOf
<1>3. job = [t \in Servers |-> job[t]] /\ up[u] \in Seq(RequestsOf(u))
  BY DEF IInv, JobInv, WireInv
<1>4. job[s] = Idle
  <2> SUFFICES ASSUME job[s] # Idle PROVE FALSE
    OBVIOUS
  <2>1. job[s].op \in Ops /\ job[s].pc \in Stages(job[s].op)
    BY Working
  <2> QED
    BY <1>2, <2>1 DEF At, Ops, Stages
<1>5. job'[s] = k /\ \A t \in Servers : t # s => job'[t] = job[t]
  BY <1>2, <1>3
<1>6. req.op \in Ops
  <2>1. req \in RequestsOf(u)
    BY <1>1, <1>2, <1>3, HeadTailProperties
  <2> QED
    BY <2>1 DEF RequestsOf, Requests, Ops
<1>7. /\ k.op = req.op /\ k.by = u /\ k.n = n /\ k.pc = FirstOf(req) /\ k.req = req /\ k.saved = <<>>
      /\ k.todo = IF req.op = "text" THEN <<[from |-> u, cid |-> req.cid]>> ELSE <<>>
  BY <1>1 DEF JobFor
<1>8. FirstOf(req) \notin {"bind", "greet"}
  BY <1>6 DEF FirstOf, Ops
<1>9. k # Idle
  BY <1>6, <1>7 DEF Idle, Ops
<1>10. SavedOk(k)
  <2>1. CASE req.op = "text"
    <3>1. Len(k.todo) = 1 /\ DOMAIN k.todo = {1} /\ k.todo[1].from = u
      BY <1>7, <2>1
    <3> QED
      BY <1>7, <2>1, <3>1 DEF SavedOk
  <2>2. CASE req.op # "text"
    BY <1>7, <2>2 DEF SavedOk
  <2> QED
    BY <2>1, <2>2
<1> QED
  BY <1>1, <1>4, <1>5, <1>7, <1>8, <1>9, <1>10

\* DealMsg: a login leaves the wire for its handler, and so does the question
\* for a page.
LEMMA DealMsgSyncs ==
  ASSUME SInv, IInv', Counted, NEW s \in Servers, NEW u \in Users, DealMsg(s, u)
  PROVE  SInv'
<1>1. PICK q, k : q = up[u] /\ k = JobFor(u, link[u].n, Head(up[u]))
  OBVIOUS
<1>2. /\ link[u].srv = s /\ q # <<>> /\ up' = [up EXCEPT ![u] = Tail(q)]
      /\ UNCHANGED <<threadOf, chat, unpushed, uip, mgr, link, down, phase, cache, synced>>
  BY <1>1 DEF DealMsg, store, counts
<1>3. IInv /\ q \in Seq(RequestsOf(u)) /\ up = [v \in Users |-> up[v]]
  BY <1>1 DEF SInv, IInv, WireInv
<1>4. /\ job[s] = Idle /\ job'[s] = k /\ \A t \in Servers : t # s => job'[t] = job[t]
      /\ k # Idle /\ k.by = u /\ k.n = link[u].n /\ k.req = Head(q) /\ k.op = Head(q).op
      /\ k.pc \notin {"bind", "greet"} /\ k.saved = <<>> /\ SavedOk(k)
  BY <1>1, <1>3, Begins
<1>5. /\ Head(q) = q[1] /\ 1 \in DOMAIN q /\ Len(q) \in Nat
      /\ \A i \in DOMAIN Tail(q) : i + 1 \in DOMAIN q /\ Tail(q)[i] = q[i + 1]
  <2>1. Len(q) \in Nat /\ DOMAIN q = 1..Len(q) /\ Len(q) # 0
    BY <1>2, <1>3, LenProperties, EmptySeq
  <2> QED
    BY <1>2, <1>3, <2>1, HeadTailProperties
<1>6. up'[u] = Tail(q) /\ \A v \in Users : v # u => up'[v] = up[v]
  BY <1>2, <1>3
<1>7. \A t \in Servers, v \in Users : Mine(t, v)' => (Mine(t, v) /\ job'[t] = job[t]) \/ (t = s /\ v = u)
  BY <1>2, <1>4 DEF Mine
<1>8. \A t \in Servers : Mine(t, u) => t = s
  <2>1. phase[u] # "off"
    BY <1>2, <1>3, MessagingAssumption DEF IInv, SessionInv
  <2> QED
    BY <1>2, <1>3, <2>1, MineIsOne
<1>9. \A v \in Users : Answering(v)' <=> Answering(v)
  BY <1>2 DEF Answering
<1>10. ASSUME NEW v \in Users PROVE LoginOf(v)'
  <2>1. LoginOf(v)
    BY DEF SInv, LoginInv
  <2>2. CASE v # u
    BY <1>2, <1>6, <1>7, <1>9, <2>1, <2>2 DEF LoginOf
  <2>3. CASE v = u /\ phase[u] = "connecting"
    <3>1. q = <<[op |-> "login"]>>
      BY <1>1, <1>2, <2>1, <2>3 DEF LoginOf
    <3>2. Tail(q) = <<>> /\ k.op = "login"
      BY <1>4, <3>1
    <3>3. ~Answering(u) /\ \A t \in Servers : ~Mine(t, u)
      BY <1>1, <1>2, <2>1, <2>3 DEF LoginOf
    <3> QED
      BY <1>2, <1>4, <1>6, <1>7, <1>9, <2>1, <2>3, <3>2, <3>3 DEF LoginOf
  <2>4. CASE v = u /\ phase[u] = "ready"
    <3>1. \A i \in DOMAIN q : q[i].op # "login"
      BY <1>1, <2>1, <2>4 DEF LoginOf
    <3> QED
      BY <1>2, <1>4, <1>5, <1>6, <1>7, <1>9, <2>1, <2>4, <3>1 DEF LoginOf
  <2>5. CASE v = u /\ phase[u] \notin {"connecting", "ready"}
    BY <1>2, <2>5 DEF LoginOf
  <2> QED
    BY <2>2, <2>3, <2>4, <2>5
<1>11. ASSUME NEW v \in Users PROVE LocationOf(v)'
  <2>1. LocationOf(v)
    BY DEF SInv, LocationInv
  <2>2. \A t \in Servers : /\ Binding(t, v)' <=> Binding(t, v)
                           /\ At(t, "bind")' <=> At(t, "bind")
                           /\ Binding(t, v) /\ Mine(t, v)' => Mine(t, v)
                           /\ Mine(t, v)' /\ At(t, "greet")' => Mine(t, v) /\ At(t, "greet")
    BY <1>2, <1>4, <1>7 DEF Binding, At, Idle
  <2>3. (Locked(v)' => Locked(v)) /\ (Settled(v)' => Settled(v))
    BY <1>2, <1>4, <2>2 DEF Locked, Settled, Binding
  <2> QED
    BY <1>2, <2>1, <2>2, <2>3 DEF LocationOf, Counted
<1>12. SavedInv'
  BY <1>4 DEF SInv, SavedInv
<1>13. ASSUME NEW v \in Users PROVE SyncOf(v)'
  <2>1. SyncOf(v)
    BY DEF SInv, SyncInv
  <2>2. \A t \in Servers : \A r : Coming(t, v, r)' <=> Coming(t, v, r)
    <3>1. \A r : ~HasSaved(k, r)
      BY <1>4 DEF HasSaved
    <3>2. \A r : ~Coming(s, v, r) /\ ~Coming(s, v, r)'
      BY <1>4, <3>1 DEF Coming, HasSaved
    <3> QED
      BY <1>2, <1>4, <3>2 DEF Coming, HasSaved, WillPush, WillAnswer
  <2>3. /\ Owed(v)' = Owed(v) /\ \A r : Covered(v, r)' <=> Covered(v, r)
        /\ \A t : KnownIn(v, t)' <=> KnownIn(v, t)
        /\ \A t, after : UpTo(v, t, after)' <=> UpTo(v, t, after)
        /\ \A f, i : PageOk(v, f, i)' <=> PageOk(v, f, i)
    BY <1>2, <2>2, TalkSame
  <2>4. Here(v)' <=> Here(v)
    BY <1>2 DEF Here, Located
  <2>5. CASE v # u
    BY <1>2, <1>6, <1>7, <2>1, <2>3, <2>5, <2>4 DEF SyncOf
  <2>6. CASE v = u
    BY <1>1, <1>2, <1>4, <1>5, <1>6, <1>7, <2>1, <2>3, <2>6, <2>4 DEF SyncOf
  <2> QED
    BY <2>5, <2>6
<1>14. LoginInv'
  BY <1>2, <1>10 DEF SInv, LoginInv
<1> QED
  BY <1>11, <1>12, <1>13, <1>14 DEF SInv, LocationInv, SyncInv

\* The handlers.
LEMMA ServerStepSyncs ==
  ASSUME SInv, IInv', Counted, StoreAssumption, NEW s \in Servers, ServerStep(s)
  PROVE  SInv'
<1>1. CASE PushAndAnswer(s)
  BY <1>1, RouteSyncs, PushSyncs, AnswerSyncs DEF PushAndAnswer
<1>2. CASE GetOrCreatePrivateChat(s)
  BY <1>2, FindSyncs, InsertSyncs DEF GetOrCreatePrivateChat
<1>3. CASE SaveChatMessages(s) /\ job[s].op \in {"text", "auth"}
  BY <1>3, SaveMessageSyncs, CommitSyncs, SaveFailsSyncs DEF SaveChatMessages
<1>4. CASE AddFriendApply(s)
  BY <1>1, <1>4, SaveApplySyncs DEF AddFriendApply
<1>5. CASE AuthFriendApply(s)
  BY <1>1, <1>2, <1>3, <1>5, ConfirmSyncs DEF AuthFriendApply
<1>6. CASE DealChatTextMsg(s)
  BY <1>1, <1>2, <1>3, <1>6, RefuseTextSyncs DEF DealChatTextMsg
<1>7. CASE CreateChat(s)
  BY <1>2, <1>7, AnswerSyncs DEF CreateChat
<1> QED
  BY <1>4, <1>5, <1>6, <1>7, LoginSyncs, LoadThreadsSyncs, LoadMessagesSyncs DEF ServerStep

-----------------------------------------------------------------------------
(* The steps of a client.                                                  *)

\* Those of u leave the others and the servers alone.
OnlyFor(u) == /\ UNCHANGED <<job, threadOf, chat, unpushed, uip, mgr>>
              /\ \E t : synced' = [synced EXCEPT ![u] = t]
              /\ \A v \in Users : v # u => SameFor(v)

\* What is invariant for the others still is.
LEMMA OthersSame ==
  ASSUME SInv, IInv', Counted, NEW u \in Users, OnlyFor(u), LoginOf(u)', LocationOf(u)', SyncOf(u)'
  PROVE  SInv'
<1>1. IInv /\ LoginInv /\ LocationInv /\ SavedInv /\ SyncInv
  BY DEF SInv
<1>2. ASSUME NEW v \in Users, v # u
      PROVE  LoginOf(v)' /\ LocationOf(v)' /\ SyncOf(v)'
  <2>1. SameFor(v) /\ LoginOf(v) /\ LocationOf(v) /\ SyncOf(v)
    BY <1>1, <1>2 DEF OnlyFor, LoginInv, LocationInv, SyncInv
  <2>2. /\ uip'[v] = uip[v] /\ \A s \in Servers : mgr'[s][v] = mgr[s][v]
        /\ faults' = 0 => faults = 0 /\ uip'[v] = uip[v]
    BY DEF OnlyFor, Counted
  <2> QED
    BY <1>1, <2>1, <2>2, LoginSame, LocationSame, SyncSame
<1>3. LocationInv' /\ SyncInv'
  BY <1>2 DEF LocationInv, SyncInv
<1>4. LoginInv'
  <2>1. synced' = [v \in Users |-> synced'[v]]
    BY <1>1 DEF LoginInv, OnlyFor
  <2> QED
    BY <1>2, <2>1 DEF LoginInv
<1>5. SavedInv'
  BY <1>1 DEF OnlyFor, SavedInv
<1> QED
  BY <1>3, <1>4, <1>5 DEF SInv

\* Where the user is, when a session begins, goes on or ends.
LEMMA LocationGoesOn ==
  ASSUME LocationInv, Counted, NEW u \in Users, OnlyFor(u),
         phase'[u] # "off" => /\ link'[u].n # 0
                              /\ \A s \in Servers : Mine(s, u)' => Mine(s, u) /\ phase[u] # "off"
                              /\ Settled(u)' => Settled(u)
                              /\ \/ link'[u] = link[u] /\ phase[u] # "off"
                                 \/ /\ ~Settled(u)'
                                    /\ \A s \in Servers : ~Mine(s, u)' /\ mgr[s][u] # link'[u].n
  PROVE  LocationOf(u)'
<1>1. LocationOf(u) /\ UNCHANGED <<job, uip, mgr>>
  BY DEF LocationInv, OnlyFor
<1>2. /\ \A s : Binding(s, u)' <=> Binding(s, u)
      /\ Locked(u)' <=> Locked(u)
  BY <1>1 DEF Binding, At, Locked
<1>3. Settled(u)' => phase'[u] # "off"
  BY DEF Settled
<1> QED
  BY <1>1, <1>2, <1>3 DEF LocationOf, Counted

\* A connection that ends.
LEMMA ClosesSyncs ==
  ASSUME SInv, IInv', Counted, NEW u \in Users, OnlyFor(u), phase'[u] = "off"
  PROVE  SInv'
<1>1. LoginOf(u)' /\ SyncOf(u)'
  BY DEF LoginOf, SyncOf, Here
<1>2. LocationOf(u)'
  BY LocationGoesOn DEF SInv
<1> QED
  BY <1>1, <1>2, OthersSame

\* connectToChat: no server has anything of the new session.
LEMMA ConnectSyncs ==
  ASSUME SInv, IInv', Counted, NEW u \in Users, NEW s \in Servers, ConnectToChat(u, s)
  PROVE  SInv'
<1>1. PICK l, x, c, q : /\ l = [srv |-> s, n |-> link[u].n + 1] /\ x = <<[op |-> "login"]>>
                        /\ c = ClearSession /\ q = <<>>
  OBVIOUS
<1>2. /\ phase[u] = "off" /\ link' = [link EXCEPT ![u] = l]
      /\ up' = [up EXCEPT ![u] = x] /\ down' = [down EXCEPT ![u] = q]
      /\ phase' = [phase EXCEPT ![u] = "connecting"] /\ cache' = [cache EXCEPT ![u] = c]
      /\ synced' = [synced EXCEPT ![u] = {}]
      /\ UNCHANGED <<job, threadOf, chat, unpushed, uip, mgr>>
  <2>1. link \in [Users -> Links]
    BY DEF SInv, IInv, SessionInv
  <2>2. link' = [link EXCEPT ![u] = l]
    BY <1>1, <2>1 DEF ConnectToChat, Links
  <2> QED
    BY <1>1, <2>2 DEF ConnectToChat, store, servers, counts
<1>3. /\ link \in [Users -> Links] /\ phase \in [Users -> {"off", "connecting", "ready"}]
      /\ up = [v \in Users |-> up[v]] /\ down = [v \in Users |-> down[v]]
      /\ cache = [v \in Users |-> cache[v]] /\ synced = [v \in Users |-> synced[v]]
  BY DEF SInv, LoginInv, IInv, SessionInv, WireInv
<1>4. /\ link'[u] = l /\ up'[u] = x /\ down'[u] = <<>> /\ phase'[u] = "connecting" /\ synced'[u] = {}
      /\ \A v \in Users : v # u => SameFor(v)
  BY <1>1, <1>2, <1>3 DEF SameFor
<1>5. OnlyFor(u)
  BY <1>2, <1>4 DEF OnlyFor
<1>6. link[u].n \in Nat
  BY <1>3 DEF Links
<1>7. ASSUME NEW t \in Servers PROVE ~Mine(t, u)'
  <2>1. job[t] # Idle => job[t].n \in Nat /\ job[t].n <= link[job[t].by].n
    <3> SUFFICES ASSUME job[t] # Idle PROVE job[t].n \in Nat /\ job[t].n <= link[job[t].by].n
      OBVIOUS
    <3>1. JobInv /\ IInv
      BY DEF SInv, IInv
    <3> QED
      BY <3>1, JobFits DEF Current
  <2> QED
    BY <1>1, <1>2, <1>4, <1>6, <2>1 DEF Mine
<1>8. ~Settled(u)'
  BY <1>4, <1>7 DEF Settled
<1>9. LocationOf(u)'
  <2>1. \A t \in Servers : mgr[t][u] # link'[u].n
    <3> SUFFICES ASSUME NEW t \in Servers PROVE mgr[t][u] # link[u].n + 1
      BY <1>1, <1>4
    <3>1. mgr[t][u] \in Nat /\ mgr[t][u] <= link[u].n
      BY DEF SInv, IInv, SessionInv
    <3> QED
      BY <1>6, <3>1
  <2> QED
    BY <1>1, <1>4, <1>5, <1>6, <1>7, <1>8, <2>1, LocationGoesOn DEF SInv
<1>10. LoginOf(u)' /\ SyncOf(u)'
  BY <1>1, <1>4, <1>7 DEF LoginOf, SyncOf, Here, Answering
<1> QED
  BY <1>5, <1>9, <1>10, OthersSame

\* A connection that breaks, is ended, or refused by the login.
LEMMA DisconnectedSyncs ==
  ASSUME SInv, IInv', Counted, NEW u \in Users, Disconnected(u) \/ (OnLogin(u) /\ ~Head(down[u]).ok)
  PROVE  SInv'
<1>1. PICK c : /\ CloseConnection(u) /\ cache' = [cache EXCEPT ![u] = c]
               /\ UNCHANGED <<store, servers, synced, counts>>
  <2>1. CASE Disconnected(u)
    BY <2>1 DEF Disconnected
  <2>2. CASE OnLogin(u) /\ ~Head(down[u]).ok
    <3>1. cache = [v \in Users |-> cache[v]]
      BY DEF SInv, IInv, WireInv
    <3>2. cache = [cache EXCEPT ![u] = cache[u]]
      BY <3>1
    <3> QED
      BY <2>2, <3>2 DEF OnLogin
  <2> QED
    BY <2>1, <2>2
<1>2. /\ link' = [link EXCEPT ![u].srv = NoServer] /\ phase' = [phase EXCEPT ![u] = "off"]
      /\ up' = [up EXCEPT ![u] = <<>>] /\ down' = [down EXCEPT ![u] = <<>>]
      /\ UNCHANGED <<job, threadOf, chat, unpushed, uip, mgr, synced>>
  BY <1>1 DEF CloseConnection, store, servers, counts
<1>3. /\ link \in [Users -> Links] /\ phase \in [Users -> {"off", "connecting", "ready"}]
      /\ up = [v \in Users |-> up[v]] /\ down = [v \in Users |-> down[v]]
      /\ cache = [v \in Users |-> cache[v]] /\ synced = [v \in Users |-> synced[v]]
  BY DEF SInv, LoginInv, IInv, SessionInv, WireInv
<1>4. phase'[u] = "off" /\ \A v \in Users : v # u => SameFor(v)
  BY <1>1, <1>2, <1>3 DEF SameFor
<1>5. synced = [synced EXCEPT ![u] = synced[u]]
  BY <1>3
<1>6. OnlyFor(u)
  BY <1>2, <1>4, <1>5 DEF OnlyFor
<1> QED
  BY <1>4, <1>6, ClosesSyncs

-----------------------------------------------------------------------------
(* What is shown, and what is told.                                        *)

\* What is told a user stays so until he has it.
StillTold(u) == \A r : Told(u, r, 0) /\ Known(u, r.from) => Told(u, r, 0)' \/ HasIt(u, r)'

\* Then what is covered stays so.
LEMMA CoversOn ==
  ASSUME IInv, IInv', NEW u \in Users, UNCHANGED <<threadOf, chat, unpushed>>,
         Retains(cache[u], cache'[u]), StillTold(u)
  PROVE  /\ Owed(u)' = Owed(u) /\ \A v : Known(u, v) => Known(u, v)'
         /\ \A r : Covered(u, r) => Covered(u, r)'
         /\ \A t : KnownIn(u, t) => KnownIn(u, t)'
         /\ \A t, after : UpTo(u, t, after) => UpTo(u, t, after)'
<1>1. PICK c, d : c = cache[u] /\ d = cache'[u]
  OBVIOUS
<1>2. PICK S : c.list \in Seq(S)
  BY <1>1, ClientAt, CacheParts DEF CachesOf
<1>3. PICK Q : d.list \in Seq(Q)
  <2>1. d \in CachesOf(u)'
    BY <1>1 DEF IInv, WireInv
  <2>2. d \in Caches(FriendsOf(u)', ThreadsOf(u)', MsgsOf(u)')
    BY <2>1 DEF CachesOf
  <2> QED
    BY <2>2, CacheParts
<1>4. ASSUME NEW v, Known(u, v)
      PROVE  Known(u, v)' /\ \A x, i : ShownWith(c, v, x, i) => ShownWith(d, v, x, i)
  BY <1>1, <1>2, <1>3, <1>4, RetainsShown DEF Known
<1>5. ASSUME NEW r, Covered(u, r) PROVE Covered(u, r)'
  <2>1. Known(u, r.from) /\ (HasIt(u, r) \/ Told(u, r, 0))
    BY <1>5 DEF Covered
  <2>2. HasIt(u, r) => HasIt(u, r)'
    BY <1>1, <1>4, <2>1 DEF HasIt
  <2>3. Told(u, r, 0) => Told(u, r, 0)' \/ HasIt(u, r)'
    BY <2>1 DEF StillTold
  <2> QED
    BY <1>4, <2>1, <2>2, <2>3 DEF Covered
<1>6. Owed(u)' = Owed(u)
  BY DEF Owed
<1>7. \A t : KnownIn(u, t) => KnownIn(u, t)'
  BY <1>4 DEF KnownIn
<1>8. \A t, after : UpTo(u, t, after) => UpTo(u, t, after)'
  BY <1>5, <1>6, <1>7 DEF UpTo
<1> QED
  BY <1>4, <1>5, <1>6, <1>7, <1>8

\* What a client writes goes behind what it has written.
LEMMA AppendedFrames ==
  ASSUME IInv, NEW u \in Users, NEW S, NEW frames \in Seq(S), up' = [up EXCEPT ![u] = @ \o frames]
  PROVE  /\ \A i \in DOMAIN up'[u] : (i \in DOMAIN up[u] /\ up'[u][i] = up[u][i])
                                     \/ \E k \in DOMAIN frames : up'[u][i] = frames[k]
         /\ frames = <<>> => up'[u] = up[u]
<1>1. PICK q, Q : q = up[u] /\ Q = S \cup RequestsOf(u)
  OBVIOUS
<1>2. up = [v \in Users |-> up[v]] /\ q \in Seq(RequestsOf(u))
  BY <1>1 DEF IInv, WireInv
<1>3. q \in Seq(Q) /\ frames \in Seq(Q)
  BY <1>1, <1>2, SeqMonotonic
<1>4. up'[u] = q \o frames
  BY <1>1, <1>2
<1>5. /\ DOMAIN (q \o frames) = 1..(Len(q) + Len(frames))
      /\ \A i \in DOMAIN (q \o frames) :
           (q \o frames)[i] = IF i <= Len(q) THEN q[i] ELSE frames[i - Len(q)]
  BY <1>3, Concatenated
<1>6. /\ Len(q) \in Nat /\ DOMAIN q = 1..Len(q) /\ Len(frames) \in Nat /\ DOMAIN frames = 1..Len(frames)
  BY <1>3, LenProperties
<1>7. ASSUME NEW i \in DOMAIN (q \o frames)
      PROVE  \/ i \in DOMAIN q /\ (q \o frames)[i] = q[i]
             \/ \E k \in DOMAIN frames : (q \o frames)[i] = frames[k]
  <2>1. PICK m, n : m = Len(q) /\ n = Len(frames)
    OBVIOUS
  <2>2. i \in 1..(m + n) /\ m \in Nat /\ n \in Nat
    BY <1>5, <1>6, <1>7, <2>1
  <2>3. i <= m => i \in 1..m
    BY <2>2
  <2>4. ~(i <= m) => i - m \in 1..n
    BY <2>2
  <2> QED
    BY <1>5, <1>6, <1>7, <2>1, <2>3, <2>4
<1>8. frames = <<>> => q \o frames = q
  BY <1>3, ConcatEmptySeq
<1> QED
  BY <1>1, <1>4, <1>7, <1>8

\* A client that is ready goes on: what it asks next starts where all is
\* covered, and so do the pages that are still to come.
LEMMA ReadyGoesOn ==
  ASSUME SInv, IInv', Counted, NEW u \in Users, OnlyFor(u),
         phase[u] = "ready", phase'[u] = "ready", link'[u] = link[u],
         NEW S, NEW frames \in Seq(S), up' = [up EXCEPT ![u] = @ \o frames],
         \A k \in DOMAIN frames : frames[k].op # "login",
         \A i \in DOMAIN down'[u] : \E k \in DOMAIN down[u] : down'[u][i] = down[u][k],
         Retains(cache[u], cache'[u]), StillTold(u),
         Here(u) =>
           /\ \A k \in DOMAIN frames :
                frames[k].op = "load" => UpTo(u, frames[k].thread, frames[k].after)'
           /\ \A i \in DOMAIN down'[u] : PageOk(u, down[u][i], i)'
           /\ \A t \in synced'[u] : t \in synced[u] \/ (/\ KnownIn(u, t)'
                                                     /\ \A r \in Owed(u)' : r.thread = t => Covered(u, r)')
  PROVE  SInv'
<1>1. IInv /\ LoginOf(u) /\ SyncOf(u) /\ UNCHANGED <<job, threadOf, chat, unpushed>>
  BY DEF SInv, LoginInv, SyncInv, OnlyFor
<1>2. \A i \in DOMAIN up'[u] : (i \in DOMAIN up[u] /\ up'[u][i] = up[u][i])
                               \/ \E k \in DOMAIN frames : up'[u][i] = frames[k]
  BY <1>1, AppendedFrames
<1>3. \A t \in Servers : Mine(t, u)' <=> Mine(t, u)
  BY <1>1 DEF Mine
<1>4. LoginOf(u)'
  BY <1>1, <1>2, <1>3 DEF LoginOf, Answering
<1>5. LocationOf(u)'
  <2>1. link[u].n # 0 /\ Settled(u)
    <3>1. LocationOf(u)
      BY DEF SInv, LocationInv
    <3> QED
      BY <3>1 DEF LocationOf, Settled
  <2> QED
    BY <1>3, <2>1, LocationGoesOn DEF SInv, OnlyFor
<1>6. /\ Owed(u)' = Owed(u) /\ \A r : Covered(u, r) => Covered(u, r)'
      /\ \A t : KnownIn(u, t) => KnownIn(u, t)'
      /\ \A t, after : UpTo(u, t, after) => UpTo(u, t, after)'
  BY <1>1, CoversOn
<1>7. SyncOf(u)'
  <2> SUFFICES ASSUME Here(u)' PROVE SyncOf(u)'
    BY DEF SyncOf
  <2>1. Here(u)
    BY DEF OnlyFor, Here, Located
  <2>2. ASSUME NEW t \in synced'[u]
        PROVE  KnownIn(u, t)' /\ \A r \in Owed(u)' : r.thread = t => Covered(u, r)'
    BY <1>1, <1>6, <2>1, <2>2 DEF SyncOf
  <2>3. ASSUME NEW i \in DOMAIN up'[u], up'[u][i].op = "load"
        PROVE  UpTo(u, up[u][i].thread, up[u][i].after)'
    BY <1>1, <1>2, <1>6, <2>1, <2>3 DEF SyncOf
  <2>4. ASSUME NEW t \in Servers, Mine(t, u)', job'[t].op = "load"
        PROVE  UpTo(u, job[t].req.thread, job[t].req.after)'
    BY <1>1, <1>3, <1>6, <2>1, <2>4 DEF SyncOf
  <2> QED
    BY <2>1, <2>2, <2>3, <2>4 DEF SyncOf
<1> QED
  BY <1>4, <1>5, <1>7, OthersSame

\* The frames behind the first one.
LEMMA TailAt ==
  ASSUME NEW S, NEW d \in Seq(S), d # <<>>
  PROVE  /\ Head(d) = d[1] /\ 1 \in DOMAIN d
         /\ \A i \in DOMAIN Tail(d) : i \in Nat /\ i + 1 \in DOMAIN d /\ Tail(d)[i] = d[i + 1]
         /\ \A k \in DOMAIN d :
               k \in Nat /\ k > 0 /\ (k # 1 => k - 1 \in DOMAIN Tail(d) /\ Tail(d)[k - 1] = d[k])
<1>1. PICK n : n = Len(d)
  OBVIOUS
<1>2. n \in Nat /\ DOMAIN d = 1..n /\ n # 0
  BY <1>1, LenProperties, EmptySeq
<1>3. Tail(d) \in Seq(S) /\ Len(Tail(d)) = n - 1 /\ \A i \in 1..Len(Tail(d)) : Tail(d)[i] = d[i + 1]
  BY <1>1, HeadTailProperties
<1>4. DOMAIN Tail(d) = 1..(n - 1)
  BY <1>3, LenProperties
<1> QED
  BY <1>2, <1>3, <1>4

\* A frame is taken: what it told is had, what follows is nearer.
LEMMA TakenTold ==
  ASSUME IInv, IInv', NEW u \in Users, NEW op, NEW c, NEW frames, ArrivesAs(u, op, c, frames), op # "login"
  PROVE  /\ StillTold(u)
         /\ \A r : \A i \in DOMAIN down[u] : Told(u, r, i) => Told(u, r, i - 1)'
<1>1. PICK d : d = down[u]
  OBVIOUS
<1>2. /\ d # <<>> /\ down' = [down EXCEPT ![u] = Tail(d)] /\ cache' = [cache EXCEPT ![u] = c]
      /\ UNCHANGED <<job, link>> /\ Retains(cache[u], c) /\ Delivered(Head(d), cache[u], c)
  BY <1>1 DEF ArrivesAs, Receive, servers
<1>3. /\ d \in Seq(AnswersOf(u)) /\ down = [v \in Users |-> down[v]] /\ cache = [v \in Users |-> cache[v]]
  BY <1>1 DEF IInv, WireInv
<1>4. down'[u] = Tail(d) /\ cache'[u] = c
  BY <1>2, <1>3
<1>5. /\ Head(d) = d[1] /\ 1 \in DOMAIN d
      /\ \A k \in DOMAIN d :
            k \in Nat /\ k > 0 /\ (k # 1 => k - 1 \in DOMAIN Tail(d) /\ Tail(d)[k - 1] = d[k])
  BY <1>2, <1>3, TailAt
<1>6. \A s, r : Coming(s, u, r) => Coming(s, u, r)'
  BY <1>2 DEF Coming, HasSaved, WillPush, WillAnswer
<1>7. ASSUME NEW r, NEW i \in DOMAIN d \cup {0}, NEW k \in DOMAIN d, k > i, Carries(d[k], r), k # 1
      PROVE  Told(u, r, i - 1)' /\ Told(u, r, 0)'
  <2>1. k - 1 \in DOMAIN Tail(d) /\ k - 1 > i - 1 /\ k - 1 > 0 /\ Carries(Tail(d)[k - 1], r)
    BY <1>5, <1>7
  <2> QED
    BY <1>4, <2>1 DEF Told, Carries
<1>8. ASSUME NEW r, NEW i \in DOMAIN d, Told(u, r, i)
      PROVE  Told(u, r, i - 1)'
  <2>1. CASE \E s \in Servers : Coming(s, u, r)
    BY <1>6, <2>1 DEF Told
  <2>2. CASE \E k \in DOMAIN d : k > i /\ Carries(d[k], r)
    <3>1. PICK k \in DOMAIN d : k > i /\ Carries(d[k], r)
      BY <2>2
    <3>2. k # 1
      BY <1>5, <3>1
    <3> QED
      BY <1>7, <3>1, <3>2
  <2> QED
    BY <1>1, <1>8, <2>1, <2>2 DEF Told
<1>9. ASSUME NEW r, Told(u, r, 0), Known(u, r.from)
      PROVE  Told(u, r, 0)' \/ HasIt(u, r)'
  <2>1. CASE \E s \in Servers : Coming(s, u, r)
    BY <1>6, <2>1 DEF Told
  <2>2. CASE \E k \in DOMAIN d : k > 0 /\ Carries(d[k], r)
    <3>1. PICK k \in DOMAIN d : k > 0 /\ Carries(d[k], r)
      BY <2>2
    <3>2. CASE k # 1
      BY <1>7, <3>1, <3>2
    <3>3. CASE k = 1
      <4>1. Carries(Head(d), r)
        BY <1>5, <3>1, <3>3
      <4>2. ShownWith(c, r.from, r.cid, r.id)
        BY <1>2, <1>9, <4>1 DEF Delivered, Carries, Known
      <4> QED
        BY <1>4, <4>2 DEF HasIt
    <3> QED
      BY <3>2, <3>3
  <2> QED
    BY <1>1, <1>9, <2>1, <2>2 DEF Told
<1> QED
  BY <1>1, <1>8, <1>9 DEF StillTold

\* Only u takes a frame.
LEMMA TakenAlone ==
  ASSUME SInv, NEW u \in Users, NEW op, NEW c, NEW frames, ArrivesAs(u, op, c, frames),
         \E t : synced' = [synced EXCEPT ![u] = t]
  PROVE  /\ OnlyFor(u) /\ link' = link /\ down[u] # <<>> /\ Head(down[u]).op = op
         /\ down'[u] = Tail(down[u]) /\ cache'[u] = c /\ up' = [up EXCEPT ![u] = @ \o frames]
         /\ down[u] \in Seq(AnswersOf(u))
<1>1. /\ down[u] # <<>> /\ Head(down[u]).op = op
      /\ down' = [down EXCEPT ![u] = Tail(@)] /\ cache' = [cache EXCEPT ![u] = c]
      /\ up' = [up EXCEPT ![u] = @ \o frames]
      /\ UNCHANGED <<job, threadOf, chat, unpushed, uip, mgr, link>>
      /\ phase' = phase \/ phase' = [phase EXCEPT ![u] = "ready"]
  BY DEF ArrivesAs, Receive, Request, store, servers, counts
<1>2. /\ phase \in [Users -> {"off", "connecting", "ready"}]
      /\ up = [v \in Users |-> up[v]] /\ down = [v \in Users |-> down[v]]
      /\ cache = [v \in Users |-> cache[v]] /\ synced = [v \in Users |-> synced[v]]
      /\ down[u] \in Seq(AnswersOf(u))
  BY DEF SInv, LoginInv, IInv, SessionInv, WireInv
<1>3. \A v \in Users : v # u => SameFor(v)
  BY <1>1, <1>2 DEF SameFor
<1> QED
  BY <1>1, <1>2, <1>3 DEF OnlyFor

\* Other frames than the answer to the login, before it: they are pushes.
LEMMA EarlySyncs ==
  ASSUME SInv, IInv', Counted, NEW u \in Users, NEW op, NEW c, NEW frames, ArrivesAs(u, op, c, frames),
         op # "login", phase' = phase, phase[u] = "connecting", synced' = synced
  PROVE  SInv'
<1>1. IInv /\ LoginOf(u) /\ synced = [synced EXCEPT ![u] = synced[u]]
  BY DEF SInv, LoginInv
<1>2. /\ OnlyFor(u) /\ link' = link /\ down[u] # <<>> /\ Head(down[u]).op = op
      /\ down'[u] = Tail(down[u]) /\ cache'[u] = c /\ up' = [up EXCEPT ![u] = @ \o frames]
      /\ down[u] \in Seq(AnswersOf(u))
  BY <1>1, TakenAlone
<1>3. /\ Head(down[u]) = down[u][1] /\ 1 \in DOMAIN down[u]
      /\ \A i \in DOMAIN Tail(down[u]) : /\ i \in Nat /\ i + 1 \in DOMAIN down[u]
                                         /\ Tail(down[u])[i] = down[u][i + 1]
  BY <1>2, TailAt
<1>4. op \in PushOps
  BY <1>1, <1>2, <1>3 DEF LoginOf
<1>5. up'[u] = up[u]
  <2>1. DOMAIN frames = {}
    BY <1>4 DEF ArrivesAs, AsksPages, PushOps
  <2>2. frames \in Seq(RequestsOf(u))
    BY DEF ArrivesAs
  <2>3. frames = <<>>
    BY <2>1, <2>2, EmptySeq, LenProperties
  <2> QED
    BY <1>1, <1>2, <2>2, <2>3, AppendedFrames
<1>6. Answering(u)' => Answering(u)
  BY <1>2, <1>3 DEF Answering
<1>7. \A t \in Servers : Mine(t, u)' <=> Mine(t, u)
  BY <1>2 DEF Mine, OnlyFor
<1>8. LoginOf(u)'
  <2>1. \A i \in DOMAIN down'[u] : i \in Nat /\ i + 1 \in DOMAIN down[u] /\ down'[u][i] = down[u][i + 1]
    BY <1>2, <1>3
  <2>2. \A i, k \in DOMAIN down'[u] : down'[u][i].op = "login" /\ down'[u][k].op = "login" => i = k
    <3> SUFFICES ASSUME NEW i \in DOMAIN down'[u], NEW k \in DOMAIN down'[u],
                        down'[u][i].op = "login", down'[u][k].op = "login"
                 PROVE  i = k
      OBVIOUS
    <3>1. i + 1 = k + 1
      BY <1>1, <2>1 DEF LoginOf
    <3> QED
      BY <2>1, <3>1
  <2> QED
    BY <1>1, <1>2, <1>5, <1>6, <1>7, <2>1, <2>2 DEF LoginOf, OnlyFor
<1>9. LocationOf(u)'
  <2>1. link[u].n # 0
    <3>1. LocationOf(u)
      BY DEF SInv, LocationInv
    <3> QED
      BY <3>1 DEF LocationOf
  <2>2. Settled(u)' => Settled(u)
    BY <1>2, <1>3, <1>7 DEF Settled, OnlyFor, At
  <2> QED
    BY <1>2, <1>7, <2>1, <2>2, LocationGoesOn DEF SInv
<1>10. SyncOf(u)'
  BY DEF SyncOf, Here
<1> QED
  BY <1>2, <1>8, <1>9, <1>10, OthersSame

\* The other frames, for a client that is ready; a page of history is treated
\* apart where it asks for more, or ends.
LEMMA ReadySyncs ==
  ASSUME SInv, IInv', Counted, NEW u \in Users, NEW op, NEW c, NEW frames, ArrivesAs(u, op, c, frames),
         op # "login", phase' = phase, phase[u] = "ready", \E t : synced' = [synced EXCEPT ![u] = t],
         Here(u) =>
           /\ \A k \in DOMAIN frames : frames[k].op = "load" /\ op = "load" =>
                UpTo(u, frames[k].thread, frames[k].after)'
           /\ \A t \in synced'[u] : t \in synced[u] \/ (/\ KnownIn(u, t)'
                                                     /\ \A r \in Owed(u)' : r.thread = t => Covered(u, r)')
  PROVE  SInv'
<1>1. IInv /\ SyncOf(u)
  BY DEF SInv, SyncInv
<1>2. /\ OnlyFor(u) /\ link' = link /\ down[u] # <<>> /\ Head(down[u]).op = op
      /\ down'[u] = Tail(down[u]) /\ cache'[u] = c /\ up' = [up EXCEPT ![u] = @ \o frames]
      /\ down[u] \in Seq(AnswersOf(u))
  BY TakenAlone
<1>3. /\ StillTold(u)
      /\ \A r : \A i \in DOMAIN down[u] : Told(u, r, i) => Told(u, r, i - 1)'
  BY <1>1, TakenTold
<1>4. \A i \in DOMAIN Tail(down[u]) :
         i \in Nat /\ i + 1 \in DOMAIN down[u] /\ Tail(down[u])[i] = down[u][i + 1]
  BY <1>2, TailAt
<1>5. Retains(cache[u], cache'[u]) /\ frames \in Seq(RequestsOf(u)) /\ AsksPages(op, frames)
  BY <1>2 DEF ArrivesAs
<1>6. UNCHANGED <<threadOf, chat, unpushed>>
  BY <1>2 DEF OnlyFor
<1>7. Owed(u)' = Owed(u) /\ \A r : Covered(u, r) => Covered(u, r)'
  BY <1>1, <1>3, <1>5, <1>6, CoversOn
<1>8. ASSUME NEW k \in DOMAIN frames
      PROVE  /\ frames[k].op # "login"
             /\ Here(u) /\ frames[k].op = "load" => UpTo(u, frames[k].thread, frames[k].after)'
  BY <1>5, <1>8 DEF AsksPages, UpTo
<1>9. ASSUME Here(u), NEW i \in DOMAIN down'[u] PROVE PageOk(u, down[u][i], i)'
  <2>1. i \in Nat /\ i + 1 \in DOMAIN down[u] /\ down'[u][i] = down[u][i + 1] /\ (i + 1) - 1 = i
    BY <1>2, <1>4, <1>9
  <2>2. PICK j, f : j = i + 1 /\ f = down[u][j] /\ j - 1 = i
    BY <2>1
  <2>3. j \in DOMAIN down[u] /\ down'[u][i] = f
    BY <2>1, <2>2
  <2>4. PageOk(u, f, j)
    BY <1>1, <1>9, <2>2, <2>3 DEF SyncOf
  <2>5. ASSUME f.op = "load", f.ok, NEW r \in Owed(u)', PageOf(f, r)
        PROVE  Shows(f.msgs, r.cid, r.id) \/ Told(u, r, i)' \/ Covered(u, r)'
    <3>1. Shows(f.msgs, r.cid, r.id) \/ Told(u, r, j) \/ Covered(u, r)
      BY <1>7, <2>4, <2>5 DEF PageOk
    <3>2. Told(u, r, j) => Told(u, r, j - 1)'
      BY <1>3, <2>3
    <3> QED
      BY <1>7, <2>2, <3>1, <3>2
  <2> QED
    BY <2>3, <2>5 DEF PageOk, PageOf
<1>10. \A i \in DOMAIN down'[u] : \E k \in DOMAIN down[u] : down'[u][i] = down[u][k]
  BY <1>2, <1>4
<1>11. phase'[u] = "ready" /\ link'[u] = link[u]
  BY <1>2
<1> QED
  BY <1>2, <1>3, <1>5, <1>8, <1>9, <1>10, <1>11, ReadyGoesOn

\* onChatLoggedIn: the answer was the only one, nothing has been asked before
\* it, and all histories are asked for from their start.
LEMMA OnLoginSyncs ==
  ASSUME SInv, IInv', Counted, NEW u \in Users, OnLogin(u), Head(down[u]).ok
  PROVE  SInv'
<1>1. IInv /\ LoginOf(u) /\ LocationOf(u) /\ synced = [synced EXCEPT ![u] = synced[u]]
  BY DEF SInv, LoginInv, LocationInv
<1>2. PICK op, c, frames : ArrivesAs(u, op, c, frames)
  BY <1>1, OnLoginArrives DEF Arrives
<1>3. /\ phase[u] = "connecting" /\ phase' = [phase EXCEPT ![u] = "ready"] /\ synced' = synced
      /\ Head(down[u]).op = "login"
  BY DEF OnLogin
<1>4. /\ OnlyFor(u) /\ link' = link /\ down[u] # <<>> /\ op = "login"
      /\ down'[u] = Tail(down[u]) /\ up' = [up EXCEPT ![u] = @ \o frames]
      /\ down[u] \in Seq(AnswersOf(u))
  BY <1>1, <1>2, <1>3, TakenAlone
<1>5. /\ Head(down[u]) = down[u][1] /\ 1 \in DOMAIN down[u]
      /\ \A i \in DOMAIN Tail(down[u]) : /\ i \in Nat /\ i + 1 \in DOMAIN down[u]
                                         /\ Tail(down[u])[i] = down[u][i + 1]
      /\ \A i \in DOMAIN down[u] : i > 0
  BY <1>4, TailAt
<1>6. phase'[u] = "ready"
  BY <1>1, <1>3 DEF IInv, SessionInv
<1>7. Answering(u) /\ Settled(u)
  BY <1>3, <1>5 DEF Answering, Settled
<1>8. /\ synced[u] = {} /\ up[u] = <<>> /\ \A s \in Servers : ~Mine(s, u)
      /\ \A i \in DOMAIN down[u] : down[u][i].op \in {"login"} \cup PushOps
      /\ \A i, k \in DOMAIN down[u] : down[u][i].op = "login" /\ down[u][k].op = "login" => i = k
  BY <1>1, <1>3, <1>7 DEF LoginOf
<1>9. \A s \in Servers : ~Mine(s, u)'
  BY <1>4, <1>8 DEF Mine, OnlyFor
<1>10. ASSUME NEW i \in DOMAIN down'[u] PROVE down'[u][i].op \in PushOps
  <2>1. i \in Nat /\ i + 1 \in DOMAIN down[u] /\ down'[u][i] = down[u][i + 1] /\ i + 1 # 1
    <3>1. i \in DOMAIN Tail(down[u])
      BY <1>4, <1>10
    <3>2. i > 0
      <4>1. Tail(down[u]) \in Seq(AnswersOf(u))
        BY <1>4, HeadTailProperties
      <4> QED
        BY <3>1, <4>1, LenProperties
    <3> QED
      BY <1>4, <1>5, <3>1, <3>2
  <2> QED
    BY <1>3, <1>5, <1>8, <2>1
<1>11. ASSUME NEW i \in DOMAIN up'[u]
       PROVE  up'[u][i].op # "login" /\ (up'[u][i].op = "load" => up'[u][i].after = 0)
  <2>1. frames \in Seq(RequestsOf(u)) /\ AsksPages("login", frames)
    BY <1>2, <1>4 DEF ArrivesAs
  <2>2. PICK k \in DOMAIN frames : up'[u][i] = frames[k]
    <3>1. DOMAIN up[u] = {}
      BY <1>8
    <3> QED
      BY <1>1, <1>4, <1>11, <2>1, <3>1, AppendedFrames
  <2> QED
    BY <2>1, <2>2 DEF AsksPages
<1>12. LoginOf(u)'
  BY <1>6, <1>9, <1>10, <1>11 DEF LoginOf, Answering, PushOps
<1>13. LocationOf(u)'
  <2>1. link[u].n # 0
    BY <1>1, <1>3 DEF LocationOf
  <2> QED
    BY <1>3, <1>4, <1>7, <1>9, <2>1, LocationGoesOn DEF SInv
<1>14. SyncOf(u)'
  <2>1. \A i \in DOMAIN up'[u] : up'[u][i].op = "load" => UpTo(u, up[u][i].thread, up[u][i].after)'
    BY <1>11 DEF UpTo
  <2>2. \A i \in DOMAIN down'[u] : PageOk(u, down[u][i], i)'
    BY <1>10 DEF PageOk, PushOps
  <2> QED
    BY <1>3, <1>8, <1>9, <2>1, <2>2 DEF SyncOf
<1> QED
  BY <1>4, <1>12, <1>13, <1>14, OthersSame

-----------------------------------------------------------------------------
(* A page of history arrives.                                              *)

\* What has been received can be said with what was asked next.
LEMMA ArrivesAlso ==
  ASSUME IInv, NEW u \in Users, Arrives(u), NEW op, NEW c, NEW frames, Receive(u, op, c, frames),
         frames \in Seq(RequestsOf(u)), AsksPages(op, frames)
  PROVE  ArrivesAs(u, op, c, frames)
<1>1. PICK o, d, g : ArrivesAs(u, o, d, g)
  BY DEF Arrives
<1>2. cache = [v \in Users |-> cache[v]]
  BY DEF IInv, WireInv
<1>3. c = d /\ op = o
  BY <1>1, <1>2 DEF ArrivesAs, Receive
<1> QED
  BY <1>1, <1>3 DEF ArrivesAs

\* The friend with a conversation is in the map.
LEMMA FriendIsKnown ==
  ASSUME NEW F, NEW T, NEW G, NEW c \in Caches(F, T, G), NEW t, FriendIdByThread(c, t) # "none"
  PROVE  Entry(c, FriendIdByThread(c, t)) # 0
<1> DEFINE at == {i \in DOMAIN c.list : c.list[i].thread = t}
<1>1. c.list \in Seq(Chat(F, T, G))
  BY CacheParts
<1>2. at # {} /\ FriendIdByThread(c, t) = c.list[Min(at)].uid
  BY DEF FriendIdByThread
<1>3. at \in SUBSET Nat
  <2>1. DOMAIN c.list = 1..Len(c.list) /\ Len(c.list) \in Nat
    BY <1>1, LenProperties
  <2> QED
    BY <2>1
<1>4. Min(at) \in at
  BY <1>2, <1>3, MinIsLeast
<1>5. PICK i \in DOMAIN c.list : i = Min(at)
  BY <1>4
<1> HIDE DEF at
<1> QED
  BY <1>1, <1>2, <1>5, EntryFinds

\* sig_chat_messages: what the page should have is shown by it, or told behind
\* it, so that all up to its last message is covered, or all there is.
LEMMA OnMessagesSyncs ==
  ASSUME SInv, IInv', Counted, NEW u \in Users, OnMessages(u), phase[u] = "ready"
  PROVE  SInv'
<1>1. PICK F, T, G, c, f : /\ F = FriendsOf(u) /\ T = ThreadsOf(u) /\ G = MsgsOf(u)
                           /\ c = cache[u] /\ f = Head(down[u])
  OBVIOUS
<1>2. PICK v, d, frames :
        /\ v = FriendIdByThread(c, f.thread) /\ d = AppendFriendChatMsg(c, v, f.msgs)
        /\ frames = IF f.more THEN <<[op |-> "load", thread |-> f.thread, after |-> Last(f.msgs).id]>>
                    ELSE <<>>
  OBVIOUS
<1>3. /\ down[u] # <<>> /\ f.op = "load" /\ UNCHANGED phase
      /\ ~f.ok \/ v = "none" => Receive(u, "load", c, <<>>) /\ UNCHANGED synced
      /\ ~(~f.ok \/ v = "none") =>
           /\ Receive(u, "load", d, frames)
           /\ synced' = IF f.more THEN synced ELSE [synced EXCEPT ![u] = @ \cup {f.thread}]
  BY <1>1, <1>2 DEF OnMessages
<1>4. /\ IInv /\ SyncOf(u) /\ Arrives(u) /\ synced = [w \in Users |-> synced[w]]
      /\ synced = [synced EXCEPT ![u] = synced[u]] /\ StoreInv /\ ThreadsInv
  BY OnMessagesArrives DEF SInv, LoginInv, SyncInv, IInv, StoreInv
<1>5. Scope(F, T, G) /\ c \in Caches(F, T, G) /\ f \in Answers(F, T, G) /\ down[u] \in Seq(AnswersOf(u))
  BY <1>1, <1>3, <1>4, ClientAt DEF CachesOf, AnswersOf, IInv, WireInv
<1>6. CASE ~f.ok \/ v = "none"
  <2>1. PICK g : g = <<>>
    OBVIOUS
  <2>2. Receive(u, "load", c, g) /\ synced' = synced
    BY <1>3, <1>6, <2>1
  <2>3. g \in Seq(RequestsOf(u)) /\ DOMAIN g = {} /\ "load" # "login"
    BY <2>1
  <2>4. AsksPages("load", g)
    BY <2>3 DEF AsksPages
  <2>5. ArrivesAs(u, "load", c, g)
    BY <1>4, <2>2, <2>3, <2>4, ArrivesAlso
  <2> QED
    BY <1>3, <1>4, <2>2, <2>3, <2>5, ReadySyncs
<1>7. CASE f.ok /\ v # "none"
  <2>1. f \in Histories(T, G)
    BY <1>3, <1>5, <1>7, AnswerParts
  <2>2. f.thread \in Nat \ {0} /\ f.more \in BOOLEAN
    BY <2>1 DEF Histories
  <2>3. PICK w \in Users : f.thread = T[w] /\ f.msgs \in Seq(G[w])
    BY <2>1 DEF Histories
  <2>4. v \in F /\ v \in Users /\ T[v] = f.thread
    <3>1. PICK t \in Nat \ {0} : t = f.thread
      BY <2>2
    <3>2. v \in F /\ T[v] = t
      BY <1>2, <1>5, <1>7, <3>1, FriendFound
    <3> QED
      BY <1>5, <3>1, <3>2 DEF Scope
  <2>5. v = w
    BY <1>1, <1>4, <2>2, <2>3, <2>4, ThreadNamesPeer
  <2>6. PICK msgs : msgs = f.msgs /\ msgs \in Seq(G[v])
    BY <2>3, <2>5
  <2>7. c \in Loose(F, T, G) /\ OrderedBut(c, Entry(c, v))
    BY <1>5 DEF Caches, OrderedBut, Loose
  <2>8. Entry(c, v) # 0
    BY <1>2, <1>5, <1>7, FriendIsKnown
  <2>9. \A x, i : Shows(f.msgs, x, i) => ShownWith(d, v, x, i)
    BY <1>2, <1>5, <2>4, <2>6, <2>7, <2>8, AppendFriendChatMsgKeeps
  <2>10. Receive(u, "load", d, frames)
         /\ synced' = IF f.more THEN synced ELSE [synced EXCEPT ![u] = @ \cup {f.thread}]
    BY <1>3, <1>7
  <2>11. frames \in Seq(RequestsOf(u)) /\ AsksPages("load", frames)
    <3>1. frames \in Seq(Requests(u, F, T, texts))
      BY <1>2, <1>5, <2>1, NextPageFits
    <3>2. AsksPages("load", frames)
      BY <1>2 DEF AsksPages
    <3> QED
      BY <1>1, <3>1, <3>2 DEF RequestsOf
  <2>12. ArrivesAs(u, "load", d, frames)
    BY <1>4, <2>10, <2>11, ArrivesAlso
  <2>13. \E t : synced' = [synced EXCEPT ![u] = t]
    BY <1>4, <2>10
  <2>14. /\ OnlyFor(u) /\ cache'[u] = d /\ Retains(c, d)
    BY <1>1, <2>12, <2>13, TakenAlone DEF ArrivesAs
  <2>15. /\ StillTold(u)
         /\ \A r : \A i \in DOMAIN down[u] : Told(u, r, i) => Told(u, r, i - 1)'
    BY <1>4, <2>12, TakenTold
  <2>16. /\ Owed(u)' = Owed(u) /\ \A x : Known(u, x) => Known(u, x)'
         /\ \A r : Covered(u, r) => Covered(u, r)'
         /\ \A t : KnownIn(u, t) => KnownIn(u, t)'
    BY <1>1, <1>4, <2>14, <2>15, CoversOn DEF OnlyFor
  <2>17. f = down[u][1] /\ 1 \in DOMAIN down[u]
    BY <1>1, <1>3, <1>5, TailAt
  <2>18. threadOf[<<u, v>>] = f.thread
    BY <1>1, <2>4 DEF ThreadsOf
  <2>19. ASSUME Here(u), NEW r \in Owed(u)', PageOf(f, r)
         PROVE  Covered(u, r)'
    <3>1. Shows(f.msgs, r.cid, r.id) \/ Told(u, r, 1) \/ Covered(u, r)
      <4>1. PageOk(u, f, 1)
        BY <1>4, <2>17, <2>19 DEF SyncOf
      <4> QED
        BY <1>3, <1>7, <2>16, <2>19, <4>1 DEF PageOk
    <3>2. r.from = v
      <4>1. r \in Owed(u) /\ r.thread = f.thread
        BY <2>16, <2>19 DEF PageOf
      <4> QED
        BY <1>4, <2>2, <2>4, <2>18, <4>1, SenderWas
    <3>3. Known(u, r.from)'
      BY <1>1, <2>8, <2>16, <3>2 DEF Known
    <3>4. CASE Shows(f.msgs, r.cid, r.id)
      BY <2>9, <2>14, <3>2, <3>3, <3>4 DEF Covered, HasIt
    <3>5. CASE Told(u, r, 1)
      <4>1. Told(u, r, 1 - 1)'
        BY <2>15, <2>17, <3>5
      <4>2. 1 - 1 = 0
        OBVIOUS
      <4> QED
        BY <3>3, <4>1, <4>2 DEF Covered
    <3> QED
      BY <2>16, <3>1, <3>4, <3>5
  <2>20. KnownIn(u, f.thread)'
    BY <1>1, <2>2, <2>4, <2>8, <2>16, <2>18 DEF KnownIn, Known
  <2>21. ASSUME Here(u), NEW k \in DOMAIN frames
         PROVE  UpTo(u, frames[k].thread, frames[k].after)'
    <3>1. f.more /\ frames[k] = [op |-> "load", thread |-> f.thread, after |-> Last(f.msgs).id]
      BY <1>2, <2>21
    <3>2. frames[k].thread = f.thread /\ frames[k].after = Last(f.msgs).id
      BY <3>1
    <3>3. UpTo(u, f.thread, Last(f.msgs).id)'
      BY <2>19, <2>20, <2>21, <3>1 DEF UpTo, PageOf
    <3> QED
      BY <3>2, <3>3
  <2>22. ASSUME Here(u), NEW t \in synced'[u], t \notin synced[u]
         PROVE  KnownIn(u, t)' /\ \A r \in Owed(u)' : r.thread = t => Covered(u, r)'
    <3>1. ~f.more /\ t = f.thread
      BY <1>4, <2>10, <2>22
    <3> QED
      BY <2>19, <2>20, <2>22, <3>1 DEF PageOf
  <2>23. "load" # "login" /\ phase' = phase
    BY <1>3
  <2> QED
    BY <2>12, <2>13, <2>21, <2>22, <2>23, ReadySyncs
<1> QED
  BY <1>6, <1>7

-----------------------------------------------------------------------------
(* The other steps of a client.                                            *)

\* Only the answer to the login makes a client ready, and only a page of
\* history ends a synchronisation.
LEMMA ClientStepIs ==
  ASSUME NEW u \in Users, ClientStep(u), ~OnLogin(u)
  PROVE  /\ phase' = phase /\ (OnMessages(u) \/ synced' = synced)
         /\ \A op, c, frames : Receive(u, op, c, frames) => op # "login"
<1>1. phase' = phase /\ (OnMessages(u) \/ synced' = synced)
  BY DEF ClientStep, OnThreads, OnMessages, OnTextFailed, OnTextRsp, OnTextNotify, OnText, OnCreated,
         OnApply, OnAuthRsp, OnAuthNotify, OnAuth
<1>2. Head(down[u]).op # "login"
  BY DEF ClientStep, OnThreads, OnMessages, OnTextFailed, OnTextRsp, OnTextNotify, OnText, OnCreated,
         OnApply, OnAuthRsp, OnAuthNotify, OnAuth
<1>3. \A op, c, frames : Receive(u, op, c, frames) => op = Head(down[u]).op
  BY DEF Receive
<1> QED
  BY <1>1, <1>2, <1>3

\* The frames that arrive.
LEMMA ClientStepSyncs ==
  ASSUME SInv, IInv', Counted, NEW u \in Users, ClientStep(u)
  PROVE  SInv'
<1>1. IInv /\ LoginOf(u) /\ synced = [synced EXCEPT ![u] = synced[u]]
  BY DEF SInv, LoginInv
<1>2. CASE OnLogin(u)
  BY <1>2, OnLoginSyncs, DisconnectedSyncs
<1>3. CASE ~OnLogin(u)
  <2>1. /\ phase' = phase /\ (OnMessages(u) \/ synced' = synced)
        /\ \A op, c, frames : Receive(u, op, c, frames) => op # "login"
    BY <1>3, ClientStepIs
  <2>2. PICK op, c, frames : ArrivesAs(u, op, c, frames)
    BY <1>1, <1>3, ClientStepShows DEF Arrives
  <2>3. op # "login" /\ down[u] # <<>> /\ Head(down[u]).op = op
    BY <2>1, <2>2 DEF ArrivesAs, Receive
  <2>4. OnMessages(u) => op = "load" /\ (\E t : synced' = [synced EXCEPT ![u] = t])
    BY <1>1, <2>3 DEF OnMessages
  <2>5. CASE phase[u] = "ready" /\ OnMessages(u)
    BY <2>5, OnMessagesSyncs
  <2>6. CASE phase[u] = "ready" /\ ~OnMessages(u)
    <3>1. synced' = synced /\ op # "load"
      <4>1. op # "load"
        BY <1>3, <2>3, <2>6 DEF ClientStep, OnThreads, OnTextFailed, OnTextRsp, OnTextNotify, OnText,
           OnCreated, OnApply, OnAuthRsp, OnAuthNotify, OnAuth
      <4> QED
        BY <2>1, <2>6, <4>1
    <3> QED
      BY <1>1, <2>1, <2>2, <2>3, <2>6, <3>1, ReadySyncs
  <2>7. CASE phase[u] = "connecting"
    <3>1. op # "load"
      <4>1. down[u] \in Seq(AnswersOf(u))
        BY <1>1 DEF IInv, WireInv
      <4>2. Head(down[u]) = down[u][1] /\ 1 \in DOMAIN down[u]
        BY <2>3, <4>1, TailAt
      <4>3. down[u][1].op \in {"login"} \cup PushOps
        BY <1>1, <2>7, <4>2 DEF LoginOf
      <4> QED
        BY <2>3, <4>2, <4>3 DEF PushOps
    <3>2. synced' = synced
      BY <2>1, <2>4, <3>1
    <3> QED
      BY <2>1, <2>2, <2>3, <2>7, <3>2, EarlySyncs
  <2>8. CASE phase[u] = "off"
    <3>1. OnlyFor(u)
      BY <1>1, <2>1, <2>2, <2>4, TakenAlone
    <3> QED
      BY <2>1, <2>8, <3>1, ClosesSyncs
  <2> QED
    BY <1>1, <2>5, <2>6, <2>7, <2>8 DEF IInv, SessionInv
<1> QED
  BY <1>2, <1>3

\* The frames are of these kinds.
OnlyAsks(frames, ops) == \E S : frames \in Seq(S) /\ \A k \in DOMAIN frames : frames[k].op \in ops

\* A user who sends, opens a chat, applies or approves: what is shown stays,
\* and neither a login nor a page is asked for.
LEMMA ActsSync ==
  ASSUME SInv, IInv', Counted, NEW u \in Users, phase[u] = "ready",
         UNCHANGED <<store, servers, unpushed, link, down, phase, synced>>,
         NEW frames, Request(u, frames), OnlyAsks(frames, {"text", "create", "apply", "auth"}),
         NEW c, cache' = [cache EXCEPT ![u] = c], Retains(cache[u], c)
  PROVE  SInv'
<1>1. PICK S : /\ frames \in Seq(S)
               /\ \A k \in DOMAIN frames : frames[k].op \in {"text", "create", "apply", "auth"}
  BY DEF OnlyAsks
<1>2. UNCHANGED <<job, threadOf, chat, unpushed, uip, mgr>> /\ up' = [up EXCEPT ![u] = @ \o frames]
  BY DEF store, servers, Request
<1>3. /\ IInv /\ SyncOf(u) /\ up = [v \in Users |-> up[v]] /\ cache = [v \in Users |-> cache[v]]
      /\ synced = [synced EXCEPT ![u] = synced[u]]
  BY DEF SInv, LoginInv, SyncInv, IInv, WireInv
<1>4. cache'[u] = c /\ \A v \in Users : v # u => SameFor(v)
  BY <1>2, <1>3 DEF SameFor
<1>5. OnlyFor(u)
  BY <1>2, <1>3, <1>4 DEF OnlyFor
<1>6. \A r, i : Told(u, r, i) => Told(u, r, i)'
  <2>1. \A s, r : Coming(s, u, r)' <=> Coming(s, u, r)
    BY <1>2 DEF Coming, HasSaved, WillPush, WillAnswer
  <2> QED
    BY <2>1 DEF Told, Carries
<1>7. StillTold(u)
  BY <1>6 DEF StillTold
<1>8. Owed(u)' = Owed(u) /\ \A r : Covered(u, r) => Covered(u, r)'
  BY <1>2, <1>3, <1>4, <1>7, CoversOn
<1>9. ASSUME Here(u), NEW i \in DOMAIN down'[u] PROVE PageOk(u, down[u][i], i)'
  <2>1. PageOk(u, down[u][i], i)
    BY <1>3, <1>9 DEF SyncOf
  <2> QED
    BY <1>6, <1>8, <2>1 DEF PageOk, PageOf
<1>10. Retains(cache[u], cache'[u])
  BY <1>4
<1>11. \A i \in DOMAIN down'[u] : \E k \in DOMAIN down[u] : down'[u][i] = down[u][k]
  OBVIOUS
<1>12. \A k \in DOMAIN frames : /\ frames[k].op # "login"
                                /\ frames[k].op = "load" => UpTo(u, frames[k].thread, frames[k].after)'
  BY <1>1
<1>13. link'[u] = link[u] /\ synced'[u] = synced[u] /\ phase'[u] = "ready"
  OBVIOUS
<1> QED
  BY <1>1, <1>2, <1>5, <1>7, <1>9, <1>10, <1>11, <1>12, <1>13, ReadyGoesOn

\* The frames a user's action may send: one, perhaps after the request for the
\* conversation.
LEMMA EnsureAsks ==
  ASSUME NEW u, NEW v, NEW q
  PROVE  /\ OnlyAsks(<<q>>, {q.op}) /\ OnlyAsks(Ensure(u, v), {"create"})
         /\ OnlyAsks(Ensure(u, v) \o <<q>>, {"create", q.op})
<1>1. PICK e, p, x, y, z : /\ e = Ensure(u, v) /\ p = [op |-> "create", to |-> v] /\ x = <<q>>
                           /\ y = <<p>> /\ z = <<>>
  OBVIOUS
<1>2. PICK S : S = {p, q}
  OBVIOUS
<1>3. x \in Seq({q}) /\ x \in Seq(S) /\ DOMAIN x = {1} /\ x[1] = q
  BY <1>1, <1>2
<1>4. y \in Seq({p}) /\ y \in Seq(S) /\ DOMAIN y = {1} /\ y[1] = p
  BY <1>1, <1>2
<1>5. z \in Seq({p}) /\ z \in Seq(S) /\ DOMAIN z = {}
  BY <1>1
<1>6. e = z \/ e = y
  BY <1>1 DEF Ensure
<1>7. e \in Seq({p}) /\ e \in Seq(S) /\ \A k \in DOMAIN e : e[k] = p
  BY <1>4, <1>5, <1>6
<1>8. p.op = "create"
  BY <1>1
<1>9. OnlyAsks(e, {"create"})
  BY <1>7, <1>8 DEF OnlyAsks
<1>10. OnlyAsks(x, {q.op})
  BY <1>3 DEF OnlyAsks
<1>11. OnlyAsks(e \o x, {"create", q.op})
  <2>1. PICK w : w = e \o x
    OBVIOUS
  <2>2. w \in Seq(S)
    BY <1>3, <1>7, <2>1, ConcatProperties
  <2>3. \A k \in DOMAIN w : w[k] \in S
    BY <2>2, ElementOfSeq, LenProperties
  <2>4. \A k \in DOMAIN w : w[k].op \in {"create", q.op}
    BY <1>2, <1>8, <2>3
  <2> QED
    BY <2>1, <2>2, <2>4 DEF OnlyAsks
<1> QED
  BY <1>1, <1>9, <1>10, <1>11

\* What a user does.
LEMMA UserStepSyncs ==
  ASSUME SInv, IInv', Counted, NEW u \in Users, UserStep(u)
  PROVE  SInv'
<1>1. IInv
  BY DEF SInv
<1>2. ASSUME NEW v \in Users, SendText(u, v) PROVE SInv'
  <2>1. PICK c : cache' = [cache EXCEPT ![u] = c] /\ Retains(cache[u], c)
    BY <1>1, <1>2, SendTextKeeps
  <2>2. PICK q : q = [op |-> "text", to |-> v, cid |-> <<u, v, texts + 1>>,
                      thread |-> ThreadId(cache[u], v)]
    OBVIOUS
  <2>3. PICK frames : frames = Ensure(u, v) \o <<q>>
    OBVIOUS
  <2>4. /\ phase[u] = "ready" /\ Request(u, frames)
        /\ UNCHANGED <<store, servers, unpushed, link, down, phase, synced>>
    BY <1>2, <2>2, <2>3 DEF SendText
  <2>5. OnlyAsks(frames, {"create", q.op}) /\ q.op = "text"
    BY <2>2, <2>3, EnsureAsks
  <2>6. OnlyAsks(frames, {"text", "create", "apply", "auth"})
    BY <2>5 DEF OnlyAsks
  <2> QED
    BY <2>1, <2>4, <2>6, ActsSync
<1>3. ASSUME NEW v \in Users, OpenChat(u, v) PROVE SInv'
  <2>1. PICK c : cache' = [cache EXCEPT ![u] = c] /\ Retains(cache[u], c)
    BY <1>1, <1>3, OpenChatKeeps
  <2>2. PICK frames : frames = Ensure(u, v)
    OBVIOUS
  <2>3. /\ phase[u] = "ready" /\ Request(u, frames)
        /\ UNCHANGED <<store, servers, unpushed, link, down, phase, synced>>
    BY <1>3, <2>2 DEF OpenChat, Click
  <2>4. OnlyAsks(frames, {"create"})
    BY <2>2, EnsureAsks
  <2>5. OnlyAsks(frames, {"text", "create", "apply", "auth"})
    BY <2>4 DEF OnlyAsks
  <2> QED
    BY <2>1, <2>3, <2>5, ActsSync
<1>4. ASSUME NEW v \in Users, ApplyFriend(u, v) \/ AuthFriend(u, v) PROVE SInv'
  <2>1. PICK q, frames : /\ q.op \in {"apply", "auth"} /\ frames = <<q>> /\ phase[u] = "ready"
                         /\ Request(u, frames) /\ cache' = [cache EXCEPT ![u] = cache[u]]
                         /\ UNCHANGED <<store, servers, unpushed, link, down, phase, synced>>
    <3>1. CASE ApplyFriend(u, v)
      BY <3>1 DEF ApplyFriend, Click
    <3>2. CASE AuthFriend(u, v)
      BY <3>2 DEF AuthFriend, Click
    <3> QED
      BY <1>4, <3>1, <3>2
  <2>2. Retains(cache[u], cache[u])
    BY DEF Retains
  <2>3. OnlyAsks(frames, {q.op})
    BY <2>1, EnsureAsks
  <2>4. OnlyAsks(frames, {"text", "create", "apply", "auth"})
    BY <2>1, <2>3 DEF OnlyAsks
  <2> QED
    BY <2>1, <2>2, <2>4, ActsSync
<1> QED
  BY <1>2, <1>3, <1>4, ConnectSyncs, DisconnectedSyncs DEF UserStep

-----------------------------------------------------------------------------
(* The invariant holds at the start and is kept.                           *)

\* Nobody has a session yet.
LEMMA InitSyncs ==
  ASSUME Init, StoreAssumption, MessagingAssumption
  PROVE  SInv
<1>1. IInv
  BY InitKeeps
<1>2. \A u \in Users : phase[u] = "off"
  BY DEF Init
<1>3. \A s \in Servers : job[s] = Idle
  BY DEF Init
<1>4. LoginInv
  BY <1>2 DEF Init, LoginInv, LoginOf
<1>5. LocationInv
  <2>1. \A s \in Servers, u \in Users : ~Binding(s, u)
    BY <1>3 DEF Binding, At, Idle
  <2>2. \A u \in Users : ~Settled(u)
    BY <1>2 DEF Settled
  <2> QED
    BY <1>2, <2>1, <2>2 DEF LocationInv, LocationOf
<1>6. SavedInv
  BY <1>3 DEF SavedInv
<1>7. SyncInv
  BY <1>2 DEF SyncInv, SyncOf, Here
<1> QED
  BY <1>1, <1>4, <1>5, <1>6, <1>7 DEF SInv

\* A step that changes nothing.
LEMMA StutterSyncs ==
  ASSUME SInv, UNCHANGED vars
  PROVE  SInv'
<1>1. IInv'
  BY StutterKeeps DEF SInv
<1>2. UNCHANGED <<job, link, up, down, phase, cache, synced, threadOf, chat, unpushed, uip, mgr>>
  BY DEF vars, store, servers, clients, counts
<1>3. \A v \in Users : SameFor(v)
  BY <1>2 DEF SameFor
<1>4. \A v \in Users : LoginOf(v)'
  BY <1>3, LoginSame DEF SInv, LoginInv
<1>5. \A v \in Users : SyncOf(v)'
  BY <1>2, <1>3, SyncSame DEF SInv, SyncInv
<1>6. \A v \in Users : LocationOf(v)'
  <2>1. faults' = faults
    BY DEF vars, counts
  <2> QED
    BY <1>2, <1>3, <2>1, LocationSame DEF SInv, LocationInv
<1>7. LoginInv' /\ SavedInv' /\ LocationInv' /\ SyncInv'
  BY <1>2, <1>4, <1>5, <1>6 DEF SInv, LoginInv, SavedInv, LocationInv, SyncInv
<1> QED
  BY <1>1, <1>7 DEF SInv

\* A step counts what fails in it.
LEMMA NextCounts ==
  ASSUME IInv, Next
  PROVE  Counted
<1>1. faults \in Nat /\ (faults' \in {faults, faults + 1} => Counted)
  BY DEF IInv, FaultInv, Counted
<1>2. ASSUME NEW s \in Servers, NEW u \in Users, DealMsg(s, u) \/ Cleanup(s, u)
      PROVE  faults' \in {faults, faults + 1}
  BY <1>2 DEF DealMsg, Cleanup, Works, Try, counts
<1>3. ASSUME NEW s \in Servers, ServerStep(s) PROVE faults' \in {faults, faults + 1}
  <2>1. CASE LoginHandler(s)
    BY <2>1 DEF LoginHandler, LoginThreads, LoginApplies, LoginFriends, ReadList, LoginLocate,
                LoginUnlocked, LoginBind, LoginGreet, Works, Try, counts
  <2>2. CASE GetOrCreatePrivateChat(s)
    BY <2>2 DEF GetOrCreatePrivateChat, FindThread, InsertThread, Works, Try, counts
  <2>3. CASE SaveChatMessages(s)
    BY <2>3 DEF SaveChatMessages, SaveMessage, CommitSave, SaveFails, Works, Try, counts
  <2>4. CASE PushAndAnswer(s)
    BY <2>4 DEF PushAndAnswer, Route, Push, PushFails, NoticeFails, Answer, Works, Try, counts
  <2>5. CASE SaveApply(s) \/ Confirm(s) \/ RefuseText(s)
    BY <2>5 DEF SaveApply, Confirm, RefuseText, Works, Try, counts
  <2>6. CASE LoadThreads(s) \/ LoadMessages(s)
    BY <2>6 DEF LoadThreads, LoadMessages, Works, Try, counts
  <2> QED
    BY <1>3, <2>1, <2>2, <2>3, <2>4, <2>5, <2>6
       DEF ServerStep, AddFriendApply, AuthFriendApply, DealChatTextMsg, CreateChat, PushAndAnswer
<1>4. ASSUME NEW u \in Users, ClientStep(u) PROVE faults' = faults
  BY <1>4 DEF ClientStep, OnLogin, OnThreads, OnMessages, OnTextFailed, OnTextRsp, OnTextNotify, OnText,
              OnCreated, OnApply, OnAuthRsp, OnAuthNotify, OnAuth, Receive, counts
<1>5. ASSUME NEW u \in Users, UserStep(u) PROVE faults' = faults
  BY <1>5 DEF UserStep, ConnectToChat, Disconnected, SendText, OpenChat, ApplyFriend, AuthFriend, Click, counts
<1> QED
  BY <1>1, <1>2, <1>3, <1>4, <1>5 DEF Next

\* Every step.
LEMMA NextSyncs ==
  ASSUME SInv, StoreAssumption, MessagingAssumption, Next
  PROVE  SInv'
<1>1. IInv' /\ Counted
  BY NextKeeps, NextCounts DEF SInv
<1> QED
  BY <1>1, ServerStepSyncs, DealMsgSyncs, CleanupSyncs, ClientStepSyncs, UserStepSyncs DEF Next

\* What is invariant so that nothing falls between history and push.
THEOREM SyncInvariant == Spec => []SInv
<1>1. Init => SInv
  BY InitSyncs, StoreAssumption, MessagingAssumption
<1>2. SInv /\ [Next]_vars => SInv'
  BY NextSyncs, StutterSyncs, StoreAssumption, MessagingAssumption
<1> QED
  BY <1>1, <1>2, PTL DEF Spec

\* Nothing falls between history and push: when all is at rest, a client that
\* has read the history of a conversation to its end has every committed
\* message of it to its user, if nothing has failed or Redis leads to him, and
\* unless its push was given up: it is covered, and nothing is told any more,
\* so it is shown.
THEOREM NothingFallsBetween == Spec => []SyncedThreadsAreComplete
<1>1. SInv => SyncedThreadsAreComplete
  <2> SUFFICES ASSUME SInv, NEW u \in Users, Quiet, Ready(u), NEW r \in chat, r.thread \in synced[u],
                      r.live, r.to = u, r.id \notin unpushed, faults = 0 \/ Located(u)
               PROVE  Has(u, r)
    BY DEF SyncedThreadsAreComplete, Complete
  <2>1. SyncOf(u) /\ r \in Owed(u)
    BY DEF SInv, SyncInv, Owed
  <2>2. Covered(u, r)
    <3>1. phase[u] = "ready" /\ LocationOf(u)
      BY DEF SInv, LocationInv, Ready
    <3>2. Here(u)
      BY <3>1 DEF LocationOf, Settled, Here, Located
    <3> QED
      BY <2>1, <3>2 DEF SyncOf
  <2>3. ~Told(u, r, 0)
    <3>1. DOMAIN down[u] = {} /\ \A s \in Servers : job[s] = Idle
      BY DEF Quiet
    <3> QED
      BY <3>1 DEF Told, Coming
  <2>4. Entry(cache[u], r.from) # 0 /\ ShownWith(cache[u], r.from, r.cid, r.id)
    BY <2>2, <2>3 DEF Covered, Known, HasIt
  <2> QED
    BY <2>4 DEF Has, ShownWith, Shows
<1> QED
  BY <1>1, SyncInvariant, PTL
=============================================================================
