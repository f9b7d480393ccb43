------------------------------ MODULE Mailbox ------------------------------
(***************************************************************************)
(* What the chat system promises a user, with no servers, connections or   *)
(* clients in it: a message is stored once, under an id that no other      *)
(* message ever has, and stays; a user is shown as sent, or as received,   *)
(* only what is stored, under the id it is stored with; a contact appears  *)
(* only when the friendship is stored.  What is on the screen is forgotten *)
(* with the session, what is stored is not.                                *)
(***************************************************************************)
EXTENDS Integers, FiniteSets

CONSTANT Users

VARIABLES stored,    \* the set of messages [thread, from, cid, id]
          shown,     \* [Users -> the set of <<cid, id>> shown as sent or received]
          befriended, \* the set of <<user, user>>
          contacts   \* [Users -> the set of users in the list]

box == <<stored, shown, befriended, contacts>>

Init ==
    /\ stored = {} /\ shown = [u \in Users |-> {}]
    /\ befriended \subseteq Users \X Users /\ contacts = [u \in Users |-> {}]

\* A message is stored: new under its thread, sender and client id, and new
\* under its id.
Store(thread, from, cid, id) ==
    /\ \A m \in stored : m.id # id /\ <<m.thread, m.from, m.cid>> # <<thread, from, cid>>
    /\ stored' = stored \cup {[thread |-> thread, from |-> from, cid |-> cid, id |-> id]}
    /\ UNCHANGED <<shown, befriended, contacts>>

Befriend(u, v) ==
    /\ befriended' = befriended \cup {<<u, v>>, <<v, u>>}
    /\ UNCHANGED <<stored, shown, contacts>>

\* More of what is stored comes on the screen; nothing shown changes its id.
Show(u, msgs, people) ==
    /\ \A p \in msgs : \E m \in stored : <<m.cid, m.id>> = p
    /\ \A v \in people : <<u, v>> \in befriended
    /\ shown' = [shown EXCEPT ![u] = @ \cup msgs]
    /\ contacts' = [contacts EXCEPT ![u] = @ \cup people]
    /\ UNCHANGED <<stored, befriended>>

Forget(u) ==
    /\ shown' = [shown EXCEPT ![u] = {}] /\ contacts' = [contacts EXCEPT ![u] = {}]
    /\ UNCHANGED <<stored, befriended>>

\* The inputs are what the next state says they were.
Next ==
    \/ \E m \in stored' \ stored : Store(m.thread, m.from, m.cid, m.id)
    \/ \E p \in befriended' \ befriended : Befriend(p[1], p[2])
    \/ \E u \in Users : \/ Show(u, shown'[u] \ shown[u], contacts'[u] \ contacts[u])
                        \/ Forget(u)

Spec == Init /\ [][Next]_box
=============================================================================
