--------------------------- MODULE OrderedReplies ---------------------------
(***************************************************************************)
(* What one ChatServer promises its clients, whatever its threads do: the  *)
(* requests it accepts from a client are answered one by one in the order  *)
(* of their acceptance, until the connection is over.  Then the debt is    *)
(* void: an answer that is already on its way may come, still in order.    *)
(***************************************************************************)
EXTENDS Naturals

CONSTANT Client

VARIABLES
  owed,     \* the accepted requests of each client that are not answered; numbered as
            \* they come
  last,     \* the last request answered
  over      \* the clients whose connection is over

vars == <<owed, last, over>>

Init ==
  /\ owed = [c \in Client |-> {}]
  /\ last = [c \in Client |-> 0]
  /\ over = {}

Accept(c, k) ==
  /\ c \notin over
  /\ k > last[c] /\ \A j \in owed[c] : k > j
  /\ owed' = [owed EXCEPT ![c] = @ \cup {k}]
  /\ UNCHANGED <<last, over>>

\* The oldest request is the next to be answered.
Answer(c) ==
  \E k \in owed[c] :
    /\ \A j \in owed[c] : k <= j
    /\ last' = [last EXCEPT ![c] = k]
    /\ owed' = [owed EXCEPT ![c] = @ \ {k}]
    /\ UNCHANGED over

End(c) ==
  /\ c \notin over
  /\ over' = over \cup {c}
  /\ owed' = [owed EXCEPT ![c] = {}]
  /\ UNCHANGED last

Late(c, k) ==
  /\ c \in over /\ k > last[c]
  /\ last' = [last EXCEPT ![c] = k]
  /\ UNCHANGED <<owed, over>>

\* Number bounds the requests TLC enumerates; it may be Nat.
Next(Number) ==
  \E c \in Client :
    \/ Answer(c) \/ End(c)
    \/ \E k \in Number : Accept(c, k) \/ Late(c, k)
=============================================================================
