----------------------------- MODULE RedisLock -----------------------------
(***************************************************************************)
(* redis_try_lock on one key, for callers that have a client: SET NX PX,   *)
(* the body of the with statement, and the script that deletes the key if  *)
(* it still has the caller's token. Any call to Redis may fail before or   *)
(* after Redis has run it. Every execution of the with has a token of its  *)
(* own.                                                                    *)
(***************************************************************************)
EXTENDS Naturals, Requests

CONSTANTS
    TTL,       \* ttl_ms, in ticks of the clock of Redis
    Nobody     \* the key does not exist

VARIABLES
    key,       \* the caller whose token the key holds
    keyTtl,    \* ticks until it expires
    inside,    \* where each caller is in the with statement
    lease      \* history: what is left of the TTL a caller was granted

lockVars == <<key, keyTtl, inside, lease>>

ASSUME RedisLockAssumption == TTL \in Nat \ {0} /\ Nobody \notin Request

LockInit ==
    /\ key = Nobody
    /\ keyTtl = 0
    /\ inside = [r \in Request |-> "no"]
    /\ lease = [r \in Request |-> 0]

Enters(r, how) ==
    /\ inside[r] = "no"
    /\ inside' = [inside EXCEPT ![r] = how]

Exits(r, how) ==
    /\ inside' = [inside EXCEPT ![r] = how]
    /\ lease' = [lease EXCEPT ![r] = 0]

-----------------------------------------------------------------------------
\* Mutant: SET without PX.
AcquireForEver(r) ==
    /\ key = Nobody
    /\ Enters(r, "locked")
    /\ key' = r
    /\ lease' = [lease EXCEPT ![r] = TTL]
    /\ UNCHANGED keyTtl

\* SET key token NX PX ttl_ms
Acquire(r) ==
    /\ key = Nobody
    /\ Enters(r, "locked")
    /\ key' = r
    /\ keyTtl' = TTL
    /\ lease' = [lease EXCEPT ![r] = TTL]

\* The key is another's: the body is given False, and raises.
Refused(r) ==
    /\ key # Nobody
    /\ inside[r] = "no"
    /\ UNCHANGED lockVars

\* The SET fails: the body runs without the lock. Redis may have run it.
AcquireFails(r) ==
    /\ Enters(r, "open")
    /\ \/ key = Nobody /\ key' = r /\ keyTtl' = TTL
       \/ UNCHANGED <<key, keyTtl>>
    /\ UNCHANGED lease

\* Mutant: the key is deleted whoever holds it.
DeleteAny(r) == key' = Nobody /\ keyTtl' = 0

\* The script deletes the key if it has the caller's token, or it fails.
Delete(r) ==
    \/ key = r /\ key' = Nobody /\ keyTtl' = 0
    \/ UNCHANGED <<key, keyTtl>>

\* The body returns.
Leave(r) ==
    \/ inside[r] = "locked" /\ Exits(r, "no") /\ Delete(r)
    \/ inside[r] = "open" /\ Exits(r, "no") /\ UNCHANGED <<key, keyTtl>>

\* The body raises. With the lock, the generator yields a second time and stays
\* suspended; its finally runs when it is collected.
Raise(r) ==
    /\ \/ inside[r] = "locked" /\ Exits(r, "suspended")
       \/ inside[r] = "open" /\ Exits(r, "no")
    /\ UNCHANGED <<key, keyTtl>>

Collect(r) ==
    /\ inside[r] = "suspended"
    /\ Exits(r, "no")
    /\ Delete(r)

\* A tick at Redis; a key whose time is over is gone.
LockTick ==
    /\ keyTtl' = IF keyTtl > 0 THEN keyTtl - 1 ELSE 0
    /\ key' = IF keyTtl = 1 THEN Nobody ELSE key
    /\ lease' = [r \in Request |-> IF lease[r] > 0 THEN lease[r] - 1 ELSE 0]
    /\ UNCHANGED inside

-----------------------------------------------------------------------------
LockTypeOK ==
    /\ key \in Request \cup {Nobody}
    /\ keyTtl \in 0 .. TTL
    /\ inside \in [Request -> {"no", "locked", "open", "suspended"}]
    /\ lease \in [Request -> 0 .. TTL]

\* Of the callers that were granted the lock, at most one is inside with time
\* left: a caller that overstays its TTL does not release the key of its
\* successor, and a release that comes late deletes nothing of others.
LeaseExclusion ==
    \A r, q \in Request :
        (inside[r] = "locked" /\ lease[r] > 0 /\ inside[q] = "locked" /\ lease[q] > 0) => r = q

\* Whatever becomes of its owner, a key is gone in the end.
KeyEnds == key # Nobody ~> key = Nobody
=============================================================================
