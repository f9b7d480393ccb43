----------------------------- MODULE MCPresence -----------------------------
(***************************************************************************)
(* Small instances of Presence: two ChatServer instances, the sessions     *)
(* dealt out to them in turn.                                              *)
(***************************************************************************)
EXTENDS PresenceProps, TLC

CONSTANTS a, b, s1, s2, s3

\* Two connections at a, so that a user may come back to the instance it left,
\* and one at b.
HomeThree == (s1 :> a) @@ (s2 :> b) @@ (s3 :> a)

\* One connection at each instance.
HomeTwo == (s1 :> a) @@ (s2 :> b)

\* Both connections at the same instance.
HomeSame == (s1 :> a) @@ (s2 :> a)
=============================================================================
