---------------------------- MODULE LoginRegistry ----------------------------
(***************************************************************************)
(* What the login protocol promises to the rest of the system, seen        *)
(* through Redis: every user is owned by at most one session; a session    *)
(* takes a user at most once, so that a session that was replaced or       *)
(* withdrawn never comes back; and an owner is withdrawn only after its    *)
(* connection has ended.                                                   *)
(***************************************************************************)
CONSTANTS User, Session, NoSession

VARIABLES
  owner,    \* the session that owns each user
  spent,    \* the sessions that have taken a user, or never will
  ended     \* the sessions whose connection has ended

vars == <<owner, spent, ended>>

Init ==
  /\ owner = [u \in User |-> NoSession]
  /\ spent = {}
  /\ ended = {}

\* A login takes the user over from whoever owns it.
Register(u, s) ==
  /\ s \notin spent
  /\ owner' = [owner EXCEPT ![u] = s]
  /\ spent' = spent \cup {s}
  /\ UNCHANGED ended

\* A login that fails to write, or dies before, gives its chance away.
Forfeit(S) ==
  /\ spent' = spent \cup S
  /\ UNCHANGED owner

Withdraw(u) ==
  /\ owner[u] \in ended
  /\ owner' = [owner EXCEPT ![u] = NoSession]
  /\ UNCHANGED <<spent, ended>>

\* Connections end one by one, or together with their process.
End(S) ==
  /\ ended' = ended \cup S
  /\ \E T \in SUBSET S : Forfeit(T)

Next ==
  \/ \E u \in User, s \in Session : Register(u, s)
  \/ \E s \in Session : Forfeit({s}) /\ UNCHANGED ended
  \/ \E u \in User : Withdraw(u)
  \/ \E S \in SUBSET Session : End(S)

Spec == Init /\ [][Next]_vars
=============================================================================
