---------------------------- MODULE MCWriteGate ----------------------------
(***************************************************************************)
(* An instance of WriteGate for TLC: three requests, the fewest among      *)
(* which a release of another's key can let a third one in.                *)
(***************************************************************************)
EXTENDS WriteGate

CONSTANTS r1, r2, r3   \* model values
=============================================================================
