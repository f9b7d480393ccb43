----------------------------- MODULE MCConnPool -----------------------------
(***************************************************************************)
(* A small instance of ConnPool: as many threads as connections, and one   *)
(* context more than the pool may hold.                                    *)
(***************************************************************************)
EXTENDS ConnPool

CONSTANTS t1, t2, c1, c2, c3
=============================================================================
