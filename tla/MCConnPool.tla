----------------------------- MODULE MCConnPool -----------------------------
(***************************************************************************)
(* An instance of ConnPool for TLC. With one connection in a chat and one  *)
(* with a request between its hops, the two others can hold both threads.  *)
(***************************************************************************)
EXTENDS ConnPool

CONSTANTS r1, r2, r3, c1, c2   \* model values
=============================================================================
