----------------------------- MODULE MCChatLog -----------------------------
(***************************************************************************)
(* An instance of ChatLog for TLC: two senders, one with its bucket, and a *)
(* client that reads.                                                      *)
(***************************************************************************)
EXTENDS ChatLog

CONSTANTS c1, c2   \* model values
=============================================================================
