---------------------------- MODULE MCMessaging ----------------------------
(* Small instances of MessagingProps for TLC. *)
EXTENDS MessagingProps

CONSTANTS a, b, c, s1, s2

\* c never logs in: it is a's second conversation, so that there are two pages.
Case(pairs, withThread, asked, nTexts, nClicks, nFaults, nLogins) ==
    [friends |-> pairs, threads |-> withThread, asked |-> asked, texts |-> nTexts,
     clicks |-> nClicks, faults |-> nFaults, logins |-> (a :> nLogins @@ b :> 1 @@ c :> 0)]

Both == {<<a, b>>, <<b, a>>}
MCScenarios ==
    { Case({}, {}, {}, 1, 3, 0, 1),               \* strangers: apply, approve, and again
      Case({}, {}, Both, 0, 2, 0, 1),             \* both have applied, both may approve
      Case({}, {}, {<<b, a>>}, 0, 1, 1, 1),       \* b has, and a statement fails
      Case({}, {}, {<<b, a>>}, 0, 1, 0, 2),       \* b has, and a logs in again meanwhile
      Case({{a, b}}, {}, {}, 2, 0, 0, 1),         \* friends without a conversation
      Case({{a, b}}, {}, {}, 1, 0, 2, 1),         \* the same, and statements fail
      Case({{a, b}}, {{a, b}}, {}, 2, 0, 0, 2),   \* a logs in again
      Case({{a, b}, {a, c}}, {{a, b}, {a, c}}, {}, 1, 0, 1, 1) }  \* two pages of threads
\* a has applied to b; nothing fails and everybody logs in once.
MCGap == {Case({}, {}, {<<a, b>>}, 1, 1, 0, 1)}

Symmetric == Permutations({s1, s2})
=============================================================================
