------------------------------- MODULE MCChat -------------------------------
(***************************************************************************)
(* An instance of Chat for TLC: two connections on one worker and one on   *)
(* another.                                                                *)
(***************************************************************************)
EXTENDS Chat, TLC

CONSTANTS c1, c2, c3, w1, w2   \* model values

Placed == c1 :> w1 @@ c2 :> w1 @@ c3 :> w2
=============================================================================
