----------------------------- MODULE RateLimit -----------------------------
(***************************************************************************)
(* The fixed-window limiter of rate_limit.py, for one key (one client      *)
(* address and scope; keys do not interact). The requests of all worker    *)
(* processes run it before their handlers. INCR and EXPIRE are separate    *)
(* calls to Redis, and a request whose call fails is let through. Being    *)
(* refused, and a call that fails before Redis runs it, change nothing     *)
(* here and are stuttering steps.                                          *)
(***************************************************************************)
EXTENDS Naturals, Requests

CONSTANTS
    LIMIT,     \* requests admitted per window (_limit_for_scope)
    WINDOW     \* RATE_LIMIT_WINDOW_SECONDS, in ticks of the clock of Redis

VARIABLES
    count,     \* the counter, 0 when there is no key; values past LIMIT + 1 are alike
    ttl,       \* ticks until the key expires, 0 when it has no expiry
    pc,        \* where each request is in the limiter
    admitted   \* history: requests the counter has admitted since its creation

vars == <<count, ttl, pc, admitted>>

ASSUME RateLimitAssumption == LIMIT \in Nat /\ WINDOW \in Nat \ {0}

Init ==
    /\ count = 0
    /\ ttl = 0
    /\ pc = [r \in Request |-> "idle"]
    /\ admitted = 0

\* INCR creates the key with the value 1 and no expiry.
Current == IF count > LIMIT + 1 THEN count ELSE count + 1

\* Mutant: the limit itself is admitted once more.
DecideLate(current) == admitted' = IF current > LIMIT + 1 THEN admitted ELSE admitted + 1

\* if current > limit: 429
Decide(current) == admitted' = IF current > LIMIT THEN admitted ELSE admitted + 1

\* Mutant: every hit renews the expiry.
HitRenewing(r) ==
    /\ pc[r] = "idle"
    /\ count' = Current
    /\ ttl' = WINDOW
    /\ Decide(Current)
    /\ UNCHANGED pc

\* INCR; the request that got 1 is to set the expiry, the others are decided.
Hit(r) ==
    /\ pc[r] = "idle"
    /\ count' = Current
    /\ \/ /\ Current = 1
          /\ pc' = [pc EXCEPT ![r] = "expire"]
          /\ UNCHANGED admitted
       \/ /\ Current # 1
          /\ Decide(Current)
          /\ UNCHANGED pc
    /\ UNCHANGED ttl

\* Mutant: the window is given in another unit than EXPIRE takes.
InitTTLMillis(r) ==
    /\ pc[r] = "expire"
    /\ ttl' = WINDOW * 1000
    /\ pc' = [pc EXCEPT ![r] = "idle"]
    /\ Decide(1)
    /\ UNCHANGED count

\* EXPIRE key window, by the request that got 1.
InitTTL(r) ==
    /\ pc[r] = "expire"
    /\ ttl' = WINDOW
    /\ pc' = [pc EXCEPT ![r] = "idle"]
    /\ Decide(1)
    /\ UNCHANGED count

\* Redis runs the INCR but the reply is lost: let through uncounted.
HitUnanswered(r) ==
    /\ pc[r] = "idle"
    /\ count' = Current
    /\ UNCHANGED <<ttl, pc, admitted>>

\* The EXPIRE fails, or the process dies before it.
InitTTLFails(r) ==
    /\ pc[r] = "expire"
    /\ pc' = [pc EXCEPT ![r] = "idle"]
    /\ UNCHANGED <<count, ttl, admitted>>

\* Time passes at Redis; a key whose time is over is gone.
Tick ==
    /\ ttl > 0
    /\ ttl' = ttl - 1
    /\ IF ttl = 1 THEN count' = 0 /\ admitted' = 0 ELSE UNCHANGED <<count, admitted>>
    /\ UNCHANGED pc

Next ==
    \/ \E r \in Request : Hit(r) \/ InitTTL(r) \/ HitUnanswered(r) \/ InitTTLFails(r)
    \/ Tick

\* Time does not stop. Nothing is assumed of requests or of calls to Redis.
Spec == Init /\ [][Next]_vars /\ WF_vars(Tick)

-----------------------------------------------------------------------------
TypeOK ==
    /\ count \in 0 .. LIMIT + 2
    /\ ttl \in 0 .. WINDOW
    /\ pc \in [Request -> {"idle", "expire"}]
    /\ admitted \in Nat

\* However many requests run in parallel, and whichever of their calls are
\* lost, the counter admits at most LIMIT of them per window.
WindowCap == admitted <= LIMIT

\* "Subsequent hits share the same expiry": once it is running, a window is
\* not prolonged, not even by an EXPIRE that comes late.
WindowNotProlonged == [][ttl > 0 => ttl' <= ttl]_vars

\* A window that has its expiry ends, under any traffic, so that a refused
\* client is admitted again.
WindowEnds == ttl > 0 ~> count = 0

\* "On first hit in a window, the TTL is initialized": a counter that nobody
\* is about to give an expiry has one.
CounterExpires ==
    (count > 0 /\ \A r \in Request : pc[r] = "idle") => ttl > 0
=============================================================================
