---------------------------- MODULE MCRateLimit ----------------------------
(***************************************************************************)
(* An instance of RateLimit for TLC: three interchangeable requests.       *)
(***************************************************************************)
EXTENDS RateLimit, TLC

CONSTANTS r1, r2, r3   \* model values
=============================================================================
