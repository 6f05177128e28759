------------------------------ MODULE ChatLog ------------------------------
(***************************************************************************)
(* From a frame to the history: the bucket of a connection decides whether *)
(* a frame is stored, and a client reads what is stored. One connection,   *)
(* Limited, is followed with its bucket; what the buckets of the others    *)
(* let through is arbitrary. One clock stamps messages and fills buckets.  *)
(***************************************************************************)
EXTENDS TokenBucket, MessageHistory

CONSTANT Limited   \* the connection whose bucket is followed

ASSUME ChatLogAssumption == Limited \in Conn

vars == <<now, bucket, history>>

Init == BucketInit /\ HistoryInit

\* A well-formed frame, at a handler that waits for one: stored or refused.
Frame(c) ==
    \/ Accept(c) /\ Admit /\ c = Limited
    \/ Accept(c) /\ UNCHANGED <<now, bucket>> /\ c # Limited
    \/ Refuse /\ c = Limited /\ inHand[c] = None /\ UNCHANGED history

Store(c) ==
    /\ Insert(c, now) \/ Commit(c) \/ Fail(c)
    /\ UNCHANGED <<now, bucket>>

Watch == (Tick \/ Observe) /\ UNCHANGED history

Read == Poll /\ UNCHANGED <<now, bucket>>

Next == (\E c \in Conn : Frame(c) \/ Store(c)) \/ Watch \/ Read

Spec == Init /\ [][Next]_vars

\* The client polls; nothing else has to happen.
FairSpec == Spec /\ WF_vars(Read)

TypeOK == BucketTypeOK /\ HistoryTypeOK
=============================================================================
