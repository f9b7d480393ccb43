----------------------------- MODULE MCAccounts -----------------------------
(* Small instances of AccountsProps for TLC. *)
EXTENDS AccountsProps

CONSTANTS a, b, e1, e2, n1, n2, p1, p2

Row1 == [uid |-> 1, name |-> n1, email |-> e1, pwd |-> p1]
Row2 == [uid |-> 2, name |-> n2, email |-> e2, pwd |-> p1]

Case(rows, ops, typed, nClicks, nFaults) ==
    [rows |-> rows, ops |-> ops, emails |-> typed[1], names |-> typed[2], passwords |-> typed[3],
     keys |-> typed[4], clicks |-> nClicks, faults |-> nFaults, expiry |-> nFaults = 0]

MCScenarios ==
    { Case({}, {"verifycode", "register"}, <<{e1}, {n1, n2}, {p1}, {}>>, 3, 0),
      Case({Row1}, {"verifycode", "reset"}, <<{e1}, {n1}, {p2}, {}>>, 3, 0),
      Case({Row1}, {"verifycode", "register", "reset"}, <<{e2}, {n1, n2}, {p2}, {}>>, 2, 1),
      Case({Row1, Row2}, {"login"}, <<{e1, e2}, {}, {p1}, {}>>, 3, 0),
      Case({Row1, Row2}, {"login"}, <<{e1}, {}, {p1, p2}, {}>>, 2, 1),
      Case({Row1, Row2}, {"login", "search"}, <<{e1}, {}, {p1}, {n1, 2}>>, 4, 0) }
=============================================================================
