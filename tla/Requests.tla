------------------------------ MODULE Requests ------------------------------
(***************************************************************************)
(* The requests in progress at once, each on a thread of its own: what the *)
(* helpers that every write request passes have in common.                 *)
(***************************************************************************)

CONSTANT Request
=============================================================================
