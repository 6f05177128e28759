---------------------------- MODULE RedisClient ----------------------------
(***************************************************************************)
(* get_redis in one worker process with Redis enabled: the first calls     *)
(* import the library, connect and ping, in one "try", and what they find  *)
(* is kept in two globals that no lock protects. Requests call it from the *)
(* threads of the pool, so the calls interleave between any two accesses   *)
(* to the globals.                                                         *)
(***************************************************************************)
EXTENDS Requests

VARIABLES
    client,       \* _client is not None
    initialized,  \* _initialized
    at,           \* where each call is in get_redis
    broken        \* history: an attempt to connect has failed by itself

globals == <<client, initialized, broken>>
clientVars == <<globals, at>>

ClientInit ==
    /\ client = FALSE
    /\ initialized = FALSE
    /\ at = [r \in Request |-> "out"]
    /\ broken = FALSE

At(r, from, to) ==
    /\ at[r] = from
    /\ at' = [at EXCEPT ![r] = to]

-----------------------------------------------------------------------------
\* if _client is not None
Call(r) ==
    /\ At(r, "out", IF client THEN "return" ELSE "unset")
    /\ UNCHANGED globals

\* Mutant: every call tries anew.
RecheckNever(r) ==
    /\ At(r, "unset", "connect")
    /\ UNCHANGED globals

\* Unless _initialized and _client is None, the call connects: also when a
\* client was set since its first test.
Recheck(r) ==
    /\ ~initialized \/ client
    /\ At(r, "unset", "connect")
    /\ UNCHANGED globals

\* Previously attempted and failed: the answer is None.
FindNone(r) ==
    /\ initialized /\ ~client
    /\ At(r, "unset", "out")
    /\ UNCHANGED globals

\* Mutant: the attempt is recorded before the client is there.
ConnectMarkFirst(r) ==
    \/ /\ ~initialized
       /\ at[r] = "connect"
       /\ initialized' = TRUE
       /\ UNCHANGED <<client, broken, at>>
    \/ /\ initialized
       /\ At(r, "connect", "ping")
       /\ client' = TRUE
       /\ UNCHANGED <<initialized, broken>>
    \/ /\ initialized
       /\ At(r, "connect", "failed")
       /\ broken' = TRUE
       /\ UNCHANGED <<client, initialized>>

\* The new client is published before its ping. Or the library cannot be
\* imported, or REDIS_URL not be parsed, and nothing is published.
Connect(r) ==
    \/ /\ At(r, "connect", "ping")
       /\ client' = TRUE
       /\ UNCHANGED <<initialized, broken>>
    \/ /\ At(r, "connect", "failed")
       /\ broken' = TRUE
       /\ UNCHANGED <<client, initialized>>

\* The ping goes to whatever client is published now, and is answered or not.
\* None, left by another call that failed, has no ping: an AttributeError.
Ping(r) ==
    \/ /\ client
       /\ At(r, "ping", "succeeded")
       /\ UNCHANGED globals
    \/ /\ client
       /\ At(r, "ping", "failed")
       /\ broken' = TRUE
       /\ UNCHANGED <<client, initialized>>
    \/ /\ ~client
       /\ At(r, "ping", "failed")
       /\ UNCHANGED globals

Succeed(r) ==
    /\ At(r, "succeeded", "return")
    /\ initialized' = TRUE
    /\ UNCHANGED <<client, broken>>

\* return _client, read anew: None, if it was withdrawn meanwhile.
Return(r, found) ==
    /\ client = found
    /\ At(r, "return", "out")
    /\ UNCHANGED globals

\* The client is withdrawn, whoever made it, and then the attempt recorded.
Withdraw(r) ==
    /\ At(r, "failed", "withdrawn")
    /\ client' = FALSE
    /\ UNCHANGED <<initialized, broken>>

GiveUp(r) ==
    /\ At(r, "withdrawn", "out")
    /\ initialized' = TRUE
    /\ UNCHANGED <<client, broken>>

\* Inside get_redis, and the ends with a client and with None.
Working(r) == Recheck(r) \/ Connect(r) \/ Ping(r) \/ Succeed(r) \/ Withdraw(r)
Found(r) == Return(r, TRUE)
FoundNone(r) == FindNone(r) \/ Return(r, FALSE) \/ GiveUp(r)

-----------------------------------------------------------------------------
ClientTypeOK ==
    /\ client \in BOOLEAN
    /\ initialized \in BOOLEAN
    /\ at \in [Request -> {"out", "unset", "connect", "ping", "succeeded", "return",
                           "failed", "withdrawn"}]
    /\ broken \in BOOLEAN

\* The first calls are over: no call can still publish or withdraw a client.
Settled ==
    /\ initialized
    /\ \A r \in Request : at[r] \in {"out", "return"} \cup (IF client THEN {} ELSE {"unset"})

\* Once the first calls are over the process keeps what they left, a client or
\* none, until it is started anew ("stay fail-open for this process lifetime").
SettledForLife == [][Settled /\ initialized' => Settled' /\ UNCHANGED client]_clientVars

\* The process is without a client after its first calls only if an attempt has
\* failed by itself, at the import, in from_url or at its ping: threads that
\* meet in the first calls neither take each other's unfinished attempt for a
\* failed one nor make one fail while all goes well.
NoneMeansBroken == (initialized /\ ~client) => broken
=============================================================================
