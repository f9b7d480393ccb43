------------------------ MODULE MessagingRefinement ------------------------
(***************************************************************************)
(* Messaging implements Mailbox, for any users, servers, page size and     *)
(* scenarios: a step of the system is a step of Mailbox or changes nothing *)
(* that Mailbox speaks of.                                                 *)
(***************************************************************************)
EXTENDS MessagingProofs

-----------------------------------------------------------------------------
(* What Mailbox sees of the state.                                         *)

Letter(r) == [thread |-> r.thread, from |-> r.from, cid |-> r.cid, id |-> r.id]
Letters == {Letter(r) : r \in {x \in chat : x.live}}
Screen == [u \in Users |-> Confirmed(u)]
Contacts == [u \in Users |-> {e.uid : e \in Range(cache[u].list)}]

\* A message is stored that was not there, under an id and a key of its own.
LEMMA StoreIsAStep ==
  ASSUME NEW m, m \notin Letters, Letters' = Letters \cup {m},
         m = Letter(m), \A x \in Letters : x.id # m.id /\ <<x.thread, x.from, x.cid>> # <<m.thread, m.from, m.cid>>,
         UNCHANGED <<cache, friends>>
  PROVE  MB!Next
<1>1. /\ m \in Letters' \ Letters
      /\ Letters' = Letters \cup {[thread |-> m.thread, from |-> m.from, cid |-> m.cid, id |-> m.id]}
  BY DEF Letter
<1>2. Screen' = Screen /\ Contacts' = Contacts
  BY DEF Screen, Contacts, Confirmed
<1>3. MB!Store(m.thread, m.from, m.cid, m.id)
  BY <1>1, <1>2 DEF MB!Store, Letters, Letter, Screen, Contacts
<1> QED
  BY <1>1, <1>3 DEF MB!Next, Letters, Letter

\* Two users become friends.
LEMMA BefriendIsAStep ==
  ASSUME NEW u, NEW v, <<u, v>> \notin friends, friends' = friends \cup {<<u, v>>, <<v, u>>},
         Letters' = Letters, UNCHANGED cache
  PROVE  MB!Next
<1>1. PICK p : p = <<u, v>>
  OBVIOUS
<1>2. p \in friends' \ friends /\ p[1] = u /\ p[2] = v
  BY <1>1
<1>3. Screen' = Screen /\ Contacts' = Contacts
  BY DEF Screen, Contacts, Confirmed
<1>4. MB!Befriend(p[1], p[2])
  BY <1>2, <1>3 DEF MB!Befriend, Letters, Letter, Screen, Contacts
<1> QED
  BY <1>2, <1>4 DEF MB!Next

\* What the client u shows changes.
ChatOf(msgs) == {<<m.cid, m.id>> : m \in {x \in Range(msgs) : x.id > 0}}
ScreenOf(c) == UNION {ChatOf(e.msgs) : e \in Range(c.list)}
ContactsOf(c) == {e.uid : e \in Range(c.list)}

\* Only what u sees does, when only the cache of u does.
LEMMA ScreensChange ==
  ASSUME NEW u \in Users, NEW c, cache' = [cache EXCEPT ![u] = c], cache = [v \in Users |-> cache[v]]
  PROVE  /\ Screen' = [Screen EXCEPT ![u] = ScreenOf(c)]
         /\ Contacts' = [Contacts EXCEPT ![u] = ContactsOf(c)]
         /\ Screen[u] = ScreenOf(cache[u]) /\ Contacts[u] = ContactsOf(cache[u])
<1>1. \A v \in Users : cache'[v] = IF v = u THEN c ELSE cache[v]
  OBVIOUS
<1>2. \A v \in Users : /\ Screen[v] = ScreenOf(cache[v]) /\ Screen'[v] = ScreenOf(cache'[v])
                       /\ Contacts[v] = ContactsOf(cache[v]) /\ Contacts'[v] = ContactsOf(cache'[v])
  BY DEF Screen, Contacts, Confirmed, ScreenOf, ChatOf, ContactsOf
<1>3. /\ Screen = [v \in Users |-> Screen[v]] /\ Screen' = [v \in Users |-> Screen'[v]]
      /\ Contacts = [v \in Users |-> Contacts[v]] /\ Contacts' = [v \in Users |-> Contacts'[v]]
  BY DEF Screen, Contacts
<1>4. PICK a, b, d, e : a = Screen /\ b = Screen' /\ d = Contacts /\ e = Contacts'
  OBVIOUS
<1>5. /\ \A v \in Users : b[v] = IF v = u THEN ScreenOf(c) ELSE a[v]
      /\ \A v \in Users : e[v] = IF v = u THEN ContactsOf(c) ELSE d[v]
  BY <1>1, <1>2, <1>4
<1>6. /\ a = [v \in Users |-> a[v]] /\ b = [v \in Users |-> b[v]]
      /\ d = [v \in Users |-> d[v]] /\ e = [v \in Users |-> e[v]]
  BY <1>3, <1>4
<1>7. b = [a EXCEPT ![u] = ScreenOf(c)]
  BY <1>5, <1>6
<1>8. e = [d EXCEPT ![u] = ContactsOf(c)]
  BY <1>5, <1>6
<1> QED
  BY <1>2, <1>4, <1>7, <1>8

\* What is on a screen, one by one.
LEMMA OnScreen ==
  ASSUME NEW c
  PROVE  /\ \A p : p \in ScreenOf(c) <=> \E x, i : p = <<x, i>> /\ CacheShows(c, x, i)
         /\ \A v : v \in ContactsOf(c) <=> \E k \in DOMAIN c.list : c.list[k].uid = v
<1>1. \A e : e \in Range(c.list) <=> \E k \in DOMAIN c.list : e = c.list[k]
  BY ElementOfRange
<1>2. \A p : p \in ScreenOf(c) <=> \E e \in Range(c.list) : p \in ChatOf(e.msgs)
  BY DEF ScreenOf
<1>3. ASSUME NEW msgs, NEW p
      PROVE  p \in ChatOf(msgs) <=> \E x, i : p = <<x, i>> /\ Shows(msgs, x, i)
  <2>1. p \in ChatOf(msgs) <=> \E m \in Range(msgs) : m.id > 0 /\ p = <<m.cid, m.id>>
    BY DEF ChatOf
  <2>2. \A m : m \in Range(msgs) <=> \E k \in DOMAIN msgs : m = msgs[k]
    BY ElementOfRange
  <2> QED
    BY <2>1, <2>2 DEF Shows
<1>4. \A v : v \in ContactsOf(c) <=> \E e \in Range(c.list) : e.uid = v
  BY DEF ContactsOf
<1>5. \A p : p \in ScreenOf(c) <=> \E x, i : p = <<x, i>> /\ CacheShows(c, x, i)
  BY <1>1, <1>2, <1>3 DEF CacheShows
<1>6. \A v : v \in ContactsOf(c) <=> \E k \in DOMAIN c.list : c.list[k].uid = v
  BY <1>1, <1>4
<1> QED
  BY <1>5, <1>6

\* What is kept stays on the screen.
LEMMA KeptIsShown ==
  ASSUME NEW c, NEW d, Keeps(c, d)
  PROVE  ScreenOf(c) \subseteq ScreenOf(d) /\ ContactsOf(c) \subseteq ContactsOf(d)
<1>1. \A x, i : CacheShows(c, x, i) => CacheShows(d, x, i)
  BY DEF Keeps
<1>2. \A k \in DOMAIN c.list : \E j \in DOMAIN d.list : d.list[j].uid = c.list[k].uid
  BY DEF Keeps
<1>3. ScreenOf(c) \subseteq ScreenOf(d)
  BY <1>1, OnScreen
<1>4. ContactsOf(c) \subseteq ContactsOf(d)
  BY <1>2, OnScreen
<1> QED
  BY <1>3, <1>4

\* More of what is stored comes on the screen of u.
LEMMA ShowIsAStep ==
  ASSUME NEW u \in Users, NEW c, cache' = [cache EXCEPT ![u] = c], cache = [v \in Users |-> cache[v]],
         Keeps(cache[u], c), Letters' = Letters, UNCHANGED friends,
         \A p \in ScreenOf(c) : \E m \in Letters : <<m.cid, m.id>> = p,
         \A v \in ContactsOf(c) : <<u, v>> \in friends
  PROVE  MB!Next
<1> DEFINE msgs == Screen'[u] \ Screen[u]
           people == Contacts'[u] \ Contacts[u]
<1>1. /\ Screen' = [Screen EXCEPT ![u] = ScreenOf(c)]
      /\ Contacts' = [Contacts EXCEPT ![u] = ContactsOf(c)]
      /\ Screen[u] = ScreenOf(cache[u]) /\ Contacts[u] = ContactsOf(cache[u])
  BY ScreensChange
<1>2. Screen[u] \subseteq ScreenOf(c) /\ Contacts[u] \subseteq ContactsOf(c)
  BY <1>1, KeptIsShown
<1>3. Screen'[u] = ScreenOf(c) /\ Contacts'[u] = ContactsOf(c)
  BY <1>1 DEF Screen, Contacts
<1>4. Screen[u] \cup msgs = ScreenOf(c) /\ Contacts[u] \cup people = ContactsOf(c)
  BY <1>2, <1>3
<1>5. /\ \A p \in msgs : \E m \in Letters : <<m.cid, m.id>> = p
      /\ \A v \in people : <<u, v>> \in friends
  BY <1>3
<1>6. /\ Screen' = [Screen EXCEPT ![u] = Screen[u] \cup msgs]
      /\ Contacts' = [Contacts EXCEPT ![u] = Contacts[u] \cup people]
  BY <1>1, <1>4
<1>7. MB!Show(u, msgs, people)
  BY <1>5, <1>6 DEF MB!Show, Letters, Letter, Screen, Contacts
<1> QED
  BY <1>7 DEF MB!Next, Screen, Contacts

\* What was on the screen of u is forgotten.
LEMMA ForgetIsAStep ==
  ASSUME NEW u \in Users, cache' = [cache EXCEPT ![u] = ClearSession], cache = [v \in Users |-> cache[v]],
         Letters' = Letters, UNCHANGED friends
  PROVE  MB!Next
<1>1. PICK c : c = ClearSession
  OBVIOUS
<1>2. /\ Screen' = [Screen EXCEPT ![u] = ScreenOf(c)]
      /\ Contacts' = [Contacts EXCEPT ![u] = ContactsOf(c)]
  BY <1>1, ScreensChange
<1>3. ScreenOf(c) = {} /\ ContactsOf(c) = {}
  <2>1. DOMAIN c.list = {}
    BY <1>1 DEF ClearSession
  <2>2. ~\E x, i : CacheShows(c, x, i)
    BY <2>1 DEF CacheShows
  <2> QED
    BY <2>1, <2>2, OnScreen
<1>4. MB!Forget(u)
  BY <1>2, <1>3 DEF MB!Forget, Letters, Letter, Screen, Contacts
<1> QED
  BY <1>4 DEF MB!Next

\* Nothing that Mailbox sees changes.
MailboxStep == MB!Next \/ UNCHANGED MB!box

\* A step that changes nothing of it is allowed.
LEMMA NothingIsAStep ==
  ASSUME Letters' = Letters, UNCHANGED <<cache, friends>>
  PROVE  MailboxStep
<1>1. Screen' = Screen /\ Contacts' = Contacts
  BY DEF Screen, Contacts, Confirmed
<1> QED
  BY <1>1 DEF MailboxStep, MB!box, Letters, Letter, Screen, Contacts

-----------------------------------------------------------------------------
(* The tables.                                                             *)

\* A row that is not live is no letter.
LEMMA LiveRows ==
  /\ \A m : m \in Letters <=> \E r \in chat : r.live /\ m = Letter(r)
  /\ \A m : m \in Letters' <=> \E r \in chat' : r.live /\ m = Letter(r)
BY DEF Letters, Letter

\* The insert and the rollback of a row: neither is seen.
LEMMA HiddenRows ==
  ASSUME \A r : r.live => (r \in chat <=> r \in chat')
  PROVE  Letters' = Letters
BY LiveRows

\* The commit: of a message, or of one that was there.
LEMMA CommitIsAStep ==
  ASSUME StoreInv, NEW thread, NEW from, NEW cid, CommitMessage(thread, from, cid), UNCHANGED cache
  PROVE  MailboxStep
<1> DEFINE next(r) == IF SameKey(r, thread, from, cid) THEN [r EXCEPT !.live = TRUE] ELSE r
<1>1. /\ \A r \in chat : Row(r)
      /\ \A r, q \in chat : r.id = q.id \/ SameKey(r, q.thread, q.from, q.cid) => r = q
  BY DEF StoreInv, ChatInv
<1>2. chat' = {next(r) : r \in chat} /\ UNCHANGED friends
  BY DEF CommitMessage
<1>3. ASSUME NEW r \in chat
      PROVE  /\ Letter(next(r)) = Letter(r)
             /\ next(r).live <=> r.live \/ SameKey(r, thread, from, cid)
  <2>1. r \in [id : Nat, thread : Nat, from : Users, to : Users, cid : Cids, live : BOOLEAN]
    BY <1>1 DEF Row
  <2>2. CASE SameKey(r, thread, from, cid)
    BY <2>1, <2>2 DEF Letter
  <2>3. CASE ~SameKey(r, thread, from, cid)
    BY <2>1, <2>3
  <2> QED
    BY <2>2, <2>3
<1> HIDE DEF next
<1>4. \A m : m \in Letters' <=>
               \E r \in chat : m = Letter(r) /\ (r.live \/ SameKey(r, thread, from, cid))
  BY <1>2, <1>3, LiveRows
<1>5. CASE \E r \in chat : SameKey(r, thread, from, cid) /\ ~r.live
  <2>1. PICK r \in chat : SameKey(r, thread, from, cid) /\ ~r.live
    BY <1>5
  <2>2. PICK m : m = Letter(r)
    OBVIOUS
  <2>3. \A q \in chat : SameKey(q, thread, from, cid) => q = r
    BY <1>1, <2>1 DEF SameKey
  <2>4. ASSUME NEW x \in Letters
        PROVE  x.id # m.id /\ <<x.thread, x.from, x.cid>> # <<m.thread, m.from, m.cid>>
    <3>1. PICK q \in chat : q.live /\ x = Letter(q)
      BY LiveRows
    <3>2. q # r
      BY <2>1, <3>1
    <3>3. q.id # r.id /\ ~SameKey(q, r.thread, r.from, r.cid)
      BY <1>1, <2>1, <3>1, <3>2
    <3>4. <<q.thread, q.from, q.cid>> # <<r.thread, r.from, r.cid>>
      BY <3>3 DEF SameKey
    <3> QED
      BY <2>2, <3>1, <3>3, <3>4 DEF Letter
  <2>5. m \notin Letters
    BY <2>4
  <2>6. Letters' = Letters \cup {m}
    BY <1>4, <2>1, <2>2, <2>3, LiveRows
  <2>7. m = Letter(m)
    BY <2>2 DEF Letter
  <2>8. MB!Next
    BY <1>2, <2>4, <2>5, <2>6, <2>7, StoreIsAStep
  <2> QED
    BY <2>8 DEF MailboxStep
<1>6. CASE ~\E r \in chat : SameKey(r, thread, from, cid) /\ ~r.live
  <2>1. Letters' = Letters
    BY <1>4, <1>6, LiveRows
  <2> QED
    BY <1>2, <2>1, NothingIsAStep
<1> QED
  BY <1>5, <1>6

\* The friendship is stored in both directions, or was so.
LEMMA ConfirmIsAStep ==
  ASSUME StoreInv, NEW u \in Users, NEW v \in Users, ConfirmApply(u, v), UNCHANGED cache
  PROVE  MailboxStep
<1>1. friends' = friends \cup {<<u, v>>, <<v, u>>} /\ UNCHANGED chat
  BY DEF ConfirmApply
<1>2. Letters' = Letters
  BY <1>1, HiddenRows
<1>3. <<u, v>> \in friends <=> <<v, u>> \in friends
  BY DEF StoreInv, FriendsInv, AreFriends
<1>4. CASE <<u, v>> \in friends
  <2>1. friends' = friends
    BY <1>1, <1>3, <1>4
  <2> QED
    BY <1>2, <2>1, NothingIsAStep
<1>5. CASE <<u, v>> \notin friends
  BY <1>1, <1>2, <1>5, BefriendIsAStep DEF MailboxStep
<1> QED
  BY <1>4, <1>5

-----------------------------------------------------------------------------
(* The servers.                                                            *)

Unseen == UNCHANGED <<cache, friends, chat>>

\* A step that touches no friendship, no row and no cache.
LEMMA UnseenIsAStep ==
  ASSUME Unseen
  PROVE  MailboxStep
<1>1. Letters' = Letters
  BY HiddenRows DEF Unseen
<1> QED
  BY <1>1, NothingIsAStep DEF Unseen

\* Answering a client shows it nothing yet.
LEMMA FinishIsUnseen ==
  ASSUME NEW s, NEW f, Finish(s, f) \/ Refuse(s)
  PROVE  UNCHANGED cache
BY DEF Refuse, Finish

\* The steps of a login.
LEMMA LoginIsUnseen ==
  ASSUME NEW s, LoginHandler(s)
  PROVE  Unseen
<1>1. ASSUME NEW pc, NEW next, NEW out, ReadList(s, pc, next, out)
      PROVE  Unseen
  BY <1>1 DEF ReadList, Unseen, store, clients
<1>2. CASE LoginThreads(s) \/ LoginApplies(s) \/ LoginFriends(s)
  <2>1. LoginFriends(s) => Unseen
    BY DEF LoginFriends, Unseen, store, clients
  <2> QED
    BY <1>1, <1>2, <2>1 DEF LoginThreads, LoginApplies
<1>3. CASE LoginLocate(s)
  <2>1. UNCHANGED store /\ (Refuse(s) \/ UNCHANGED clients)
    BY <1>3 DEF LoginLocate
  <2> QED
    BY <2>1, FinishIsUnseen DEF Unseen, store, clients
<1>4. CASE LoginUnlocked(s)
  <2>1. UNCHANGED store /\ Refuse(s)
    BY <1>4 DEF LoginUnlocked
  <2> QED
    BY <2>1, FinishIsUnseen DEF Unseen, store
<1>5. CASE LoginBind(s)
  BY <1>5 DEF LoginBind, Unseen, store, clients
<1>6. CASE LoginGreet(s)
  <2>1. UNCHANGED store /\ \E f : Finish(s, f)
    BY <1>6 DEF LoginGreet
  <2> QED
    BY <2>1, FinishIsUnseen DEF Unseen, store
<1> QED
  BY <1>2, <1>3, <1>4, <1>5, <1>6 DEF LoginHandler

\* Finding or making a conversation.
LEMMA ThreadIsUnseen ==
  ASSUME NEW s, GetOrCreatePrivateChat(s)
  PROVE  Unseen
<1>1. CASE FindThread(s)
  BY <1>1 DEF FindThread, Unseen, store, clients
<1>2. CASE InsertThread(s)
  <2>1. UNCHANGED <<friends, chat>> /\ UNCHANGED clients
    BY <1>2 DEF InsertThread, OrNot, CreatePrivateChat, store
  <2> QED
    BY <2>1 DEF Unseen, clients
<1> QED
  BY <1>1, <1>2 DEF GetOrCreatePrivateChat

\* Routing, pushing and answering.
LEMMA PushIsUnseen ==
  ASSUME NEW s, PushAndAnswer(s)
  PROVE  Unseen
<1>1. CASE Route(s)
  BY <1>1 DEF Route, Unseen, store, clients
<1>2. CASE Push(s)
  BY <1>2 DEF Push, Unseen, store
<1>3. CASE PushFails(s)
  BY <1>3 DEF PushFails, Unseen, store
<1>4. CASE NoticeFails(s)
  BY <1>4 DEF NoticeFails, Unseen, store, clients
<1>5. CASE Answer(s)
  <2>1. UNCHANGED store /\ \E f : Finish(s, f)
    BY <1>5 DEF Answer
  <2> QED
    BY <2>1, FinishIsUnseen DEF Unseen, store
<1> QED
  BY <1>1, <1>2, <1>3, <1>5, <1>4 DEF PushAndAnswer

\* Saving a message.
LEMMA SaveIsAStep ==
  ASSUME IInv, NEW s, SaveChatMessages(s)
  PROVE  MailboxStep
<1>1. PICK th, from, to, cid : /\ th = job[s].thread /\ from = Head(job[s].todo).from
                               /\ to = Other(s, from) /\ cid = Head(job[s].todo).cid
  OBVIOUS
<1>2. StoreInv
  BY DEF IInv
<1>3. CASE SaveMessage(s)
  <2>1. \/ InsertMessage(th, from, to, cid) /\ UNCHANGED clients
        \/ Refuse(s) /\ UNCHANGED store
    BY <1>1, <1>3 DEF SaveMessage
  <2>2. CASE Refuse(s) /\ UNCHANGED store
    <3>1. Unseen
      BY <2>2, FinishIsUnseen DEF Unseen, store
    <3> QED
      BY <3>1, UnseenIsAStep
  <2>3. CASE InsertMessage(th, from, to, cid) /\ UNCHANGED clients
    <3>1. UNCHANGED <<friends, cache>>
      BY <2>3 DEF InsertMessage, clients
    <3>2. PICK r : r = [id |-> lastId + 1, thread |-> th, from |-> from, to |-> to, cid |-> cid,
                        live |-> FALSE]
      OBVIOUS
    <3>3. ~r.live /\ (chat' = chat \/ chat' = chat \cup {r})
      BY <2>3, <3>2 DEF InsertMessage
    <3>4. Letters' = Letters
      BY <3>3, HiddenRows
    <3> QED
      BY <3>1, <3>4, NothingIsAStep
  <2> QED
    BY <2>1, <2>2, <2>3
<1>4. CASE CommitSave(s)
  <2>1. CommitMessage(th, from, cid) /\ UNCHANGED clients
    BY <1>1, <1>4 DEF CommitSave
  <2>2. UNCHANGED cache
    BY <2>1 DEF clients
  <2> QED
    BY <1>2, <2>1, <2>2, CommitIsAStep
<1>5. CASE SaveFails(s)
  <2>1. /\ RollbackMessage(th, from, cid) \/ CommitMessage(th, from, cid)
        /\ Refuse(s) \/ UNCHANGED clients
    BY <1>1, <1>5 DEF SaveFails
  <2>2. UNCHANGED cache
    BY <2>1, FinishIsUnseen DEF clients
  <2>3. CASE RollbackMessage(th, from, cid)
    <3>1. /\ chat' = {r \in chat : r.live \/ ~SameKey(r, th, from, cid)} /\ UNCHANGED friends
      BY <2>3 DEF RollbackMessage
    <3>2. Letters' = Letters
      BY <3>1, HiddenRows
    <3> QED
      BY <2>2, <3>1, <3>2, NothingIsAStep
  <2> QED
    BY <1>2, <2>1, <2>2, <2>3, CommitIsAStep
<1> QED
  BY <1>3, <1>4, <1>5 DEF SaveChatMessages

\* The handlers.
LEMMA ServerIsAStep ==
  ASSUME IInv, NEW s \in Servers, ServerStep(s)
  PROVE  MailboxStep
<1>1. CASE Confirm(s) /\ job[s].op = "auth"
  <2>1. PICK u, v : u = job[s].by /\ v = job[s].req.to
    OBVIOUS
  <2>2. /\ ConfirmApply(u, v) \/ UNCHANGED store
        /\ UNCHANGED clients \/ Refuse(s)
    BY <1>1, <2>1 DEF Confirm, OrNot
  <2>3. UNCHANGED cache
    BY <2>2, FinishIsUnseen DEF clients
  <2>4. CASE UNCHANGED store
    <3>1. Unseen
      BY <2>4, <2>3 DEF Unseen, store
    <3> QED
      BY <3>1, UnseenIsAStep
  <2>5. CASE ConfirmApply(u, v)
    <3>1. job[s] # Idle
      BY <1>1 DEF Idle
    <3>2. u \in Users /\ job[s].op = job[s].req.op
          /\ Asks(u, FriendsOf(u), ThreadsOf(u), texts, job[s].req)
      BY <2>1, <3>1, Working, JobFits DEF IInv
    <3>3. v \in Users
      BY <1>1, <2>1, <3>2 DEF Asks
    <3>4. StoreInv /\ UNCHANGED cache
      BY <2>3 DEF IInv
    <3> QED
      BY <2>5, <3>2, <3>3, <3>4, ConfirmIsAStep
  <2> QED
    BY <2>2, <2>4, <2>5
<1>2. CASE SaveApply(s)
  <2>1. /\ StoreApply(job[s].by, job[s].req.to) \/ UNCHANGED store
        /\ UNCHANGED clients \/ Refuse(s)
    BY <1>2 DEF SaveApply, OrNot
  <2>2. Unseen
    BY <2>1, FinishIsUnseen DEF StoreApply, Unseen, store, clients
  <2> QED
    BY <2>2, UnseenIsAStep
<1>3. CASE RefuseText(s)
  <2>1. Unseen
    BY <1>3, FinishIsUnseen DEF RefuseText, Unseen, store
  <2> QED
    BY <2>1, UnseenIsAStep
<1>4. CASE LoadThreads(s)
  <2>1. UNCHANGED store /\ ((\E f : Finish(s, f)) \/ Refuse(s))
    BY <1>4 DEF LoadThreads
  <2>2. Unseen
    BY <2>1, FinishIsUnseen DEF Unseen, store
  <2> QED
    BY <2>2, UnseenIsAStep
<1>5. CASE LoadMessages(s)
  <2>1. UNCHANGED store /\ ((\E f : Finish(s, f)) \/ Refuse(s))
    BY <1>5 DEF LoadMessages
  <2>2. Unseen
    BY <2>1, FinishIsUnseen DEF Unseen, store
  <2> QED
    BY <2>2, UnseenIsAStep
<1>6. CASE Answer(s)
  <2>1. PushAndAnswer(s)
    BY <1>6 DEF PushAndAnswer
  <2> QED
    BY <2>1, PushIsUnseen, UnseenIsAStep
<1>7. CASE LoginHandler(s) \/ GetOrCreatePrivateChat(s) \/ PushAndAnswer(s)
  BY <1>7, LoginIsUnseen, ThreadIsUnseen, PushIsUnseen, UnseenIsAStep
<1>8. CASE SaveChatMessages(s)
  BY <1>8, SaveIsAStep
<1> QED
  BY <1>1, <1>2, <1>3, <1>4, <1>5, <1>6, <1>7, <1>8
     DEF ServerStep, AddFriendApply, AuthFriendApply, DealChatTextMsg, CreateChat

-----------------------------------------------------------------------------
(* The clients.                                                            *)

\* What clients show is stored, whom they list are friends.
ShownIsStored == \A u \in Users :
    /\ \A p \in ScreenOf(cache[u]) : \E m \in Letters : <<m.cid, m.id>> = p
    /\ \A v \in ContactsOf(cache[u]) : <<u, v>> \in friends

\* The invariant says so: what a chat holds with an id is a copy of a row.
LEMMA ShownWasStored ==
  ASSUME IInv
  PROVE  ShownIsStored
<1> SUFFICES ASSUME NEW u \in Users
             PROVE  /\ \A p \in ScreenOf(cache[u]) : \E m \in Letters : <<m.cid, m.id>> = p
                    /\ \A v \in ContactsOf(cache[u]) : <<u, v>> \in friends
  BY DEF ShownIsStored
<1>1. PICK F, T, R, n, G, c : /\ F = FriendsOf(u) /\ T = ThreadsOf(u) /\ R = StoredOf(u) /\ n = texts
                              /\ G = Msgs(u, R, n) /\ c = cache[u]
  OBVIOUS
<1>2. Scope(F, T, G) /\ c \in Caches(F, T, G)
  BY <1>1, ClientAt DEF CachesOf, MsgsOf
<1>3. \A k \in DOMAIN c.list : c.list[k] \in Chat(F, T, G)
  BY <1>2, CacheParts
<1>4. ASSUME NEW k \in DOMAIN c.list
      PROVE  c.list[k].uid \in F /\ c.list[k].msgs \in Seq(G[c.list[k].uid])
  BY <1>3 DEF Chat
<1>5. \A v \in F : v \in Users /\ <<u, v>> \in friends
  BY <1>1 DEF FriendsOf, AreFriends
<1>6. \A v \in ContactsOf(c) : <<u, v>> \in friends
  BY <1>4, <1>5, OnScreen
<1>7. ASSUME NEW p \in ScreenOf(c)
      PROVE  \E m \in Letters : <<m.cid, m.id>> = p
  <2>1. PICK x, i : p = <<x, i>> /\ CacheShows(c, x, i)
    BY OnScreen
  <2>2. PICK k \in DOMAIN c.list : Shows(c.list[k].msgs, x, i)
    BY <2>1 DEF CacheShows
  <2>3. PICK v, ms : v = c.list[k].uid /\ ms = c.list[k].msgs
    OBVIOUS
  <2>4. v \in Users /\ ms \in Seq(G[v])
    BY <1>4, <1>5, <2>3
  <2>5. PICK h \in DOMAIN ms : ms[h].cid = x /\ ms[h].id = i /\ i > 0
    BY <2>2, <2>3 DEF Shows
  <2>6. ms[h] \in G[v]
    BY <2>4, <2>5, ElementOfSeq, LenProperties
  <2>7. PICK y : y = ms[h]
    OBVIOUS
  <2>8. y \in R[v] \cup Typed(u, v, n) /\ y.id > 0 /\ y.cid = x /\ y.id = i
    BY <1>1, <2>4, <2>5, <2>6, <2>7 DEF Msgs
  <2>9. y \notin Typed(u, v, n)
    BY <2>8 DEF Typed
  <2>10. PICK r \in chat : IsCopy(y, r)
    BY <1>1, <2>4, <2>8, <2>9 DEF StoredOf
  <2>11. PICK m : m = Letter(r)
    OBVIOUS
  <2>12. m \in Letters /\ m.cid = r.cid /\ m.id = r.id
    BY <2>10, <2>11, LiveRows DEF IsCopy, Letter
  <2> QED
    BY <2>1, <2>8, <2>10, <2>12 DEF IsCopy
<1> QED
  BY <1>1, <1>6, <1>7

\* A client that keeps what it shows, and shows more of what is stored.
LEMMA KeepingIsAStep ==
  ASSUME IInv, ShownIsStored', NEW u \in Users, NEW c, cache' = [cache EXCEPT ![u] = c],
         Keeps(cache[u], c), UNCHANGED <<friends, chat>>
  PROVE  MailboxStep
<1>1. cache = [v \in Users |-> cache[v]]
  BY DEF IInv, WireInv
<1>2. cache'[u] = c
  BY <1>1
<1>3. Letters' = Letters
  BY HiddenRows
<1>4. /\ \A p \in ScreenOf(c) : \E m \in Letters : <<m.cid, m.id>> = p
      /\ \A v \in ContactsOf(c) : <<u, v>> \in friends
  BY <1>2, <1>3 DEF ShownIsStored
<1> QED
  BY <1>1, <1>3, <1>4, ShowIsAStep DEF MailboxStep

\* The frames a client takes.
LEMMA ClientIsAStep ==
  ASSUME IInv, ShownIsStored', NEW u \in Users, ClientStep(u)
  PROVE  MailboxStep
<1>1. CASE Arrives(u)
  <2>1. PICK op, c, frames : Receive(u, op, c, frames) /\ Keeps(cache[u], c)
    BY <1>1 DEF Arrives, ArrivesAs
  <2>2. cache' = [cache EXCEPT ![u] = c] /\ UNCHANGED <<friends, chat>>
    BY <2>1 DEF Receive, store
  <2> QED
    BY <2>1, <2>2, KeepingIsAStep
<1>2. CASE OnLogin(u) /\ ~Head(down[u]).ok
  <2>1. UNCHANGED <<store, cache>>
    BY <1>2 DEF OnLogin
  <2>2. Unseen
    BY <2>1 DEF Unseen, store
  <2> QED
    BY <2>2, UnseenIsAStep
<1> QED
  BY <1>1, <1>2, ClientStepShows

\* What the users do.
LEMMA UserIsAStep ==
  ASSUME IInv, ShownIsStored', NEW u \in Users, UserStep(u)
  PROVE  MailboxStep
<1>1. CASE \E s \in Servers : ConnectToChat(u, s)
  <2>1. cache' = [cache EXCEPT ![u] = ClearSession] /\ UNCHANGED <<friends, chat>>
    BY <1>1 DEF ConnectToChat, store
  <2>2. cache = [v \in Users |-> cache[v]]
    BY DEF IInv, WireInv
  <2>3. Letters' = Letters
    BY <2>1, HiddenRows
  <2> QED
    BY <2>1, <2>2, <2>3, ForgetIsAStep DEF MailboxStep
<1>2. CASE Disconnected(u)
  <2>1. PICK c : c = FailPendingMessages(cache[u])
    OBVIOUS
  <2>2. cache' = [cache EXCEPT ![u] = c] /\ UNCHANGED <<friends, chat>>
    BY <1>2, <2>1 DEF Disconnected, store
  <2>3. Keeps(cache[u], c)
    BY <2>1, DisconnectedShows
  <2> QED
    BY <2>2, <2>3, KeepingIsAStep
<1>3. ASSUME NEW v \in Users, SendText(u, v) \/ OpenChat(u, v)
      PROVE  MailboxStep
  <2>1. PICK c : cache' = [cache EXCEPT ![u] = c] /\ Keeps(cache[u], c)
    BY <1>3, SendTextKeeps, OpenChatKeeps
  <2>2. UNCHANGED <<friends, chat>>
    BY <1>3 DEF SendText, OpenChat, Click, store
  <2> QED
    BY <2>1, <2>2, KeepingIsAStep
<1>4. ASSUME NEW v \in Users, ApplyFriend(u, v) \/ AuthFriend(u, v)
      PROVE  MailboxStep
  <2>1. cache' = cache
    BY <1>4, ApplyFriendKeeps
  <2>2. Unseen
    BY <1>4, <2>1 DEF ApplyFriend, AuthFriend, Click, Unseen, store
  <2> QED
    BY <2>2, UnseenIsAStep
<1> QED
  BY <1>1, <1>2, <1>3, <1>4 DEF UserStep

\* The sessions.
LEMMA SessionIsAStep ==
  ASSUME NEW s, NEW u, DealMsg(s, u) \/ Cleanup(s, u)
  PROVE  MailboxStep
<1>1. Unseen
  BY DEF DealMsg, Cleanup, Unseen, store, clients
<1> QED
  BY <1>1, UnseenIsAStep

\* Every step.
LEMMA EveryIsAStep ==
  ASSUME IInv, ShownIsStored', [Next]_vars
  PROVE  MailboxStep
<1>1. CASE Next
  BY <1>1, ServerIsAStep, SessionIsAStep, ClientIsAStep, UserIsAStep DEF Next
<1>2. CASE UNCHANGED vars
  <2>1. Unseen
    BY <1>2 DEF vars, store, clients, Unseen
  <2> QED
    BY <2>1, UnseenIsAStep
<1> QED
  BY <1>1, <1>2

-----------------------------------------------------------------------------
(* The theorems.                                                           *)

\* At the start nothing is stored, shown or listed.
LEMMA StartsEmpty ==
  ASSUME Init
  PROVE  MB!Init
<1>1. /\ chat = {} /\ friends \subseteq Pairs /\ cache = [u \in Users |-> ClearSession]
  BY DEF Init
<1>2. \A m : m \notin Letters
  BY <1>1, LiveRows
<1>3. PICK c : c = ClearSession
  OBVIOUS
<1>4. ScreenOf(c) = {} /\ ContactsOf(c) = {}
  <2>1. DOMAIN c.list = {}
    BY <1>3 DEF ClearSession
  <2>2. ~\E x, i : CacheShows(c, x, i)
    BY <2>1 DEF CacheShows
  <2> QED
    BY <2>1, <2>2, OnScreen
<1>5. \A u \in Users : cache[u] = c
  BY <1>1, <1>3
<1>6. Screen = [u \in Users |-> {}] /\ Contacts = [u \in Users |-> {}]
  <2>1. \A u \in Users : Confirmed(u) = ScreenOf(cache[u])
    BY DEF Confirmed, ScreenOf, ChatOf
  <2> QED
    BY <1>4, <1>5, <2>1 DEF Screen, Contacts, ContactsOf
<1> QED
  BY <1>1, <1>2, <1>6 DEF MB!Init, Letters, Letter, Screen, Contacts, Pairs

\* What a client shows as sent or received is stored and committed, under the
\* id it is shown with, and whoever is in its list is a friend in the table.
THEOREM NothingIsInvented == Spec => []ShownIsStored
<1>1. IInv => ShownIsStored
  BY ShownWasStored
<1> QED
  BY <1>1, InductiveInvariant, PTL

\* The system keeps the promises of Mailbox: messages are stored once, under
\* ids of their own, and stay; what is shown is stored and keeps its id until
\* the session ends; contacts are friends.
THEOREM KeepsThePromises == Spec => ImplementsMailbox
<1>1. Init => MB!Init
  BY StartsEmpty
<1>2. IInv /\ ShownIsStored' /\ [Next]_vars => [MB!Next]_(MB!box)
  BY EveryIsAStep DEF MailboxStep
<1> QED
  BY <1>1, <1>2, InductiveInvariant, NothingIsInvented, PTL DEF Spec, ImplementsMailbox, MB!Spec
=============================================================================
